---- MODULE Spec2Model ----
(***************************************************************************)
(* Model of the performance monitor of the Solana indexer                  *)
(* (src/src/monitoring/monitor.ts) and of the dashboard and handlers that  *)
(* use it.                                                                  *)
(*                                                                         *)
(* JavaScript numbers are modelled as exact extended rationals: a record   *)
(* [n, d] with d > 0 is the rational n/d in lowest terms, and d = 0 holds  *)
(* the three non-finite doubles: n = 1 is Infinity, n = -1 is -Infinity    *)
(* and n = 0 is NaN.  Rounding of finite doubles is not modelled; the      *)
(* sign of zero is not modelled (every zero divisor of the program is a    *)
(* counter or a difference of times, which is +0).                         *)
(***************************************************************************)
EXTENDS Integers, Sequences, FiniteSets, TLC

\* ------------------------------------------------------------------ bounds
\* Number of calls and clock ticks explored in one behaviour of Spec,
\* SpecDatabase, SpecToken and SpecTimer.
MaxCalls == 3

MaxDatabaseCalls == 4

MaxTokenCalls == 3

MaxTimerCalls == 6

\* The same for SpecAlert.
MaxAlertCalls == 3

\* The same for SpecHealth.
MaxHealthCalls == 3

\* The same for SpecReport.
MaxReportCalls == 3

\* The same for SpecStop.
MaxStopCalls == 6

\* Number of ticks and reads in a behaviour of SpecHandler.
MaxHandlerCalls == 1

\* Number of clock advances in a behaviour of SpecWrites.
MaxWriteCalls == 1

\* Number of calls in a behaviour of SpecSingleton.
MaxSingletonCalls == 5

\* The same for SpecDashboard.
MaxDashboardCalls == 4

\* The same for SpecInterval.
MaxIntervalCalls == 6

\* The same for SpecCounters.
MaxCounterCalls == 4

\* ------------------------------------------------------- JavaScript numbers
Abs(i) == IF i < 0 THEN -i ELSE i

Sign(i) == IF i > 0 THEN 1 ELSE IF i < 0 THEN -1 ELSE 0

RECURSIVE GCD(_, _)
GCD(a, b) == IF b = 0 THEN a ELSE GCD(b, a % b)

\* The number n/d (d >= 0) in canonical form.
Norm(n, d) ==
  IF d = 0 THEN [n |-> Sign(n), d |-> 0]
  ELSE LET g == GCD(Abs(n), d) IN [n |-> n \div g, d |-> d \div g]

Num(i) == [n |-> i, d |-> 1]

NaN == [n |-> 0, d |-> 0]

Infinity == [n |-> 1, d |-> 0]

IsNaN(a) == a.d = 0 /\ a.n = 0

IsFinite(a) == a.d > 0

\* a + b
NumAdd(a, b) ==
  IF IsNaN(a) \/ IsNaN(b) THEN NaN
  ELSE IF a.d = 0 /\ b.d = 0 THEN (IF a.n = b.n THEN a ELSE NaN)
  ELSE IF a.d = 0 THEN a
  ELSE IF b.d = 0 THEN b
  ELSE Norm(a.n * b.d + b.n * a.d, a.d * b.d)

NumNeg(a) == [n |-> -a.n, d |-> a.d]

\* a - b
NumSub(a, b) == NumAdd(a, NumNeg(b))

\* a * b  (0 * Infinity and NaN * x are NaN: both give n = 0, d = 0)
NumMul(a, b) == Norm(a.n * b.n, a.d * b.d)

\* 1 / b, the divisor zero being +0
NumRecip(b) ==
  IF IsNaN(b) THEN NaN
  ELSE IF b.d = 0 THEN Num(0)
  ELSE IF b.n = 0 THEN Infinity
  ELSE [n |-> Sign(b.n) * b.d, d |-> Abs(b.n)]

\* a / b
NumDiv(a, b) == NumMul(a, NumRecip(b))

\* a > b  (false when either side is NaN)
NumGt(a, b) ==
  /\ ~IsNaN(a)
  /\ ~IsNaN(b)
  /\ IF a.d > 0 /\ b.d > 0 THEN a.n * b.d > b.n * a.d
     ELSE IF a.d = 0 /\ b.d = 0 THEN a.n > b.n
     ELSE IF a.d = 0 THEN a.n = 1
     ELSE b.n = -1

\* ToBoolean(a): 0 and NaN are falsy
Truthy(a) == ~IsNaN(a) /\ a # Num(0)

\* Math.round(a): the nearest integer, halves rounded up; non-finite kept
MathRound(a) ==
  IF a.d = 0 THEN a ELSE Num((2 * a.n + a.d) \div (2 * a.d))

\* a.toFixed(2): the text of a rounded to two decimals, kept as the number
\* it denotes ("NaN" and "Infinity" for the non-finite values)
ToFixed2(a) ==
  IF a.d = 0 THEN a ELSE NumDiv(MathRound(NumMul(a, Num(100))), Num(100))

\* ------------------------------------------------------------ configuration
\* PERFORMANCE_THRESHOLDS
MAX_DATABASE_LATENCY == 500

MAX_MEMORY_USAGE == 536870912

MAX_STREAM_SILENCE == 30000

\* 0.05
MAX_ERROR_RATE == [n |-> 1, d |-> 20]

\* Symbols of SUPPORTED_TOKENS (two of the five configured tokens are kept)
ConfiguredSymbols == {"USDC", "SOL"}

\* Symbols a caller may pass: the configured ones and one that is not
Symbols == ConfiguredSymbols \cup {"PYTH"}

\* Latencies (ms) a caller may report for a database operation
Latencies == {0, 100, 200, 300, 600}

\* Transaction amounts a caller may supply
Amounts == {0, 10, 20, 30}

\* Timer identifiers and the single label used with them
TimerIds == {"t1", "t2"}

\* Clock advances (ms) between two calls
TickSteps == {400, 30001}

\* The period of setInterval in startPeriodicReporting (ms)
REPORT_INTERVAL == 60000

\* The label callers pass to startTimer
TimerLabel == "message_processing"

\* What process.memoryUsage() and process.cpuUsage() may answer
EnvSamples ==
  { [heapUsed |-> 104857600, user |-> 1500000, system |-> 500000],
    [heapUsed |-> 629145600, user |-> 4000000, system |-> 1000000] }

\* -------------------------------------------------------------------- state
VARIABLES
  now,               \* the clock: Date.now() and performance.now(), in ms
  startTime,         \* PerformanceMonitor.startTime
  metrics,           \* PerformanceMonitor.metrics, tokenMetrics by reference
  tokenMetrics,      \* the one object metrics.tokenMetrics refers to
  processingTimers,  \* PerformanceMonitor.processingTimers
  snapshot,          \* the snapshot a reader holds: <<>> or <<snapshot>>
  health,            \* the last HealthStatus returned: <<>> or <<status>>
  lastCall,          \* the last call: operation, arguments, return value
  dbCalls,           \* the recordDatabaseOperation calls made, in order
  amountsSupplied,   \* per configured symbol, the amounts supplied, in order
  callsLeft,         \* number of calls and ticks still to be explored
  intervalId,        \* PerformanceMonitor.intervalId: the timeout or "null"
  activeTimers,      \* the interval timers the runtime holds armed
  stopped,           \* stop() has been called
  nextReport,        \* the time the interval timer is next due
  reports,           \* number of periodic reports emitted
  lastReport,        \* the last report printed: <<>> or <<report>>
  invocations,       \* per handleData invocation: where it stands
  callStack,         \* statements the running synchronous segment has left
  stream,            \* the updates the gRPC stream has yet to deliver
  committed,         \* the aggregate when the last operation completed
  tokenEvents,       \* per configured symbol and kind, the events recorded
  alertCalls,        \* number of recordAlertSent calls made
  foldedDurations,   \* the durations folded into averageProcessingTime
  performanceMonitor, \* the module's singleton: "null" or the instance
  constructions      \* number of PerformanceMonitor objects constructed

\* The periodic reporting trigger and what it has printed
schedVars ==
  << intervalId, activeTimers, stopped, nextReport, reports, lastReport >>

\* The handleData invocations in flight and the running segment
handlerVars == << invocations, callStack, committed, stream >>

\* What has been asked of the monitor so far
historyVars == << tokenEvents, alertCalls, foldedDurations >>

\* The singleton of the monitoring module
moduleVars == << performanceMonitor, constructions >>

vars ==
  << now, startTime, metrics, tokenMetrics, processingTimers, snapshot,
     health, lastCall, dbCalls, amountsSupplied, callsLeft, schedVars,
     handlerVars, historyVars, moduleVars >>

\* What the readers may not touch: the metrics without the three system
\* fields updateSystemMetrics samples, the token metrics and the timers
AggregateOf(m, tm, timers) ==
  << [m EXCEPT !.memoryUsage = 0, !.cpuUsage = [n |-> 0, d |-> 1],
               !.connectionUptime = 0],
     tm, timers >>

Aggregate == AggregateOf(metrics, tokenMetrics, processingTimers)

\* The handleData invocations that may be in flight at once
Invocations == {"h1", "h2"}

\* The updates handleData is given: the kind of the update, the configured
\* token of an account update ("none" when getTokenByMint finds none),
\* whether shouldAlert holds for it, whether a block carries a blockHeight,
\* whether new PublicKey(acc.pubkey) throws on the account's key (a key of
\* more than 32 bytes), and whether BigInt(lamports) throws in shouldAlert
\* (lamports that is not the text of an integer)
Message(kind, symbol, alert, height, badKey, malformed) ==
  [kind |-> kind, symbol |-> symbol, alert |-> alert, height |-> height,
   badKey |-> badKey, malformed |-> malformed]

Messages ==
  { Message("account", "SOL", TRUE, FALSE, FALSE, FALSE),
    Message("account", "SOL", FALSE, FALSE, FALSE, FALSE),
    Message("account", "SOL", FALSE, FALSE, FALSE, TRUE),
    Message("account", "none", FALSE, FALSE, FALSE, FALSE),
    Message("account", "none", FALSE, FALSE, TRUE, FALSE),
    Message("transaction", "none", FALSE, FALSE, FALSE, FALSE),
    Message("slot", "none", FALSE, FALSE, FALSE, FALSE),
    Message("block", "none", FALSE, TRUE, FALSE, FALSE),
    Message("block", "none", FALSE, FALSE, FALSE, FALSE) }

NoMessage == Message("none", "none", FALSE, FALSE, FALSE, FALSE)

\* An invocation not started yet. With its position an invocation carries
\* what became of its database write ("none" while none was attempted), the
\* success flags of the recordDatabaseOperation calls it made, and whether
\* it ended in handleData's catch block
Idle == [pc |-> "idle", msg |-> NoMessage, operationId |-> "",
         dbOperationId |-> "", write |-> "none", reported |-> << >>,
         threw |-> FALSE]

\* The reference held in metrics.tokenMetrics and in every shallow copy
TokenMetricsRef == "tokenMetrics#1"

\* The PerformanceMonitor object initializeMonitoring constructs
MonitorRef == "PerformanceMonitor#1"

\* The NodeJS.Timeout setInterval returns in startPeriodicReporting
IntervalRef == "timeout#1"

\* The return value of a void method
Void == [n |-> 0, d |-> -1]

\* A call: the operation, its string arguments (timer id or symbol, kind),
\* its numeric argument, its boolean argument and the number it returned
Call(op, id, kind, num, flag, ret) ==
  [op |-> op, id |-> id, kind |-> kind, num |-> num, flag |-> flag,
   ret |-> ret]

\* PerformanceMonitor.initializeMetrics
initializeMetrics(t) ==
  [ messagesPerSecond |-> Num(0),
    totalMessagesProcessed |-> 0,
    averageProcessingTime |-> Num(0),
    databaseLatency |-> Num(0),
    databaseOperationsPerSecond |-> 0,
    failedDatabaseOperations |-> 0,
    memoryUsage |-> 104857600,
    cpuUsage |-> Num(0),
    connectionUptime |-> 0,
    lastMessageTime |-> t,
    streamErrors |-> 0,
    reconnectionCount |-> 0,
    alertsSent |-> 0,
    alertsFailedToSend |-> 0,
    tokenMetrics |-> TokenMetricsRef ]

\* initializeMetrics seeding no token: entries would be created on first use
initializeTokenMetricsUnseeded(t) == << >>

\* The tokenMetrics object built by initializeMetrics
initializeTokenMetrics(t) ==
  [ s \in ConfiguredSymbols |->
      [ symbol |-> s,
        accountUpdates |-> 0,
        transactions |-> 0,
        averageTransactionSize |-> Num(0),
        largestTransaction |-> Num(0),
        lastActivity |-> t ] ]

\* Stream errors and sent alerts recorded before a behaviour of SpecHealth
\* starts (by that many recordStreamError() and recordAlertSent(true) calls)
PriorStreamErrors == {0, 5}

PriorAlertsSent == {0, 8}

\* The state after new PerformanceMonitor(), the metrics being m
InitState(m) ==
  /\ now = 0
  /\ startTime = 0
  /\ metrics = m
  /\ tokenMetrics = initializeTokenMetrics(0)
  /\ processingTimers = << >>
  /\ snapshot = << >>
  /\ health = << >>
  /\ lastCall = Call("constructor", "", "", Void, FALSE, Void)
  /\ dbCalls = << >>
  /\ amountsSupplied = [s \in ConfiguredSymbols |-> << >>]
  /\ intervalId = IntervalRef
  /\ activeTimers = {IntervalRef}
  /\ stopped = FALSE
  /\ nextReport = REPORT_INTERVAL
  /\ reports = 0
  /\ lastReport = << >>
  /\ invocations = [h \in Invocations |-> Idle]
  /\ callStack = << >>
  /\ stream = << >>
  /\ committed = Aggregate
  /\ tokenEvents =
       [s \in ConfiguredSymbols |-> [account |-> 0, transaction |-> 0]]
  /\ alertCalls = m.alertsSent + m.alertsFailedToSend
  /\ foldedDurations = << >>
  /\ performanceMonitor = MonitorRef
  /\ constructions = 1

\* The state after new PerformanceMonitor()
InitMonitor == InitState(initializeMetrics(0))

Init == InitMonitor /\ callsLeft = MaxCalls

InitDatabase == InitMonitor /\ callsLeft = MaxDatabaseCalls

InitToken == InitMonitor /\ callsLeft = MaxTokenCalls

InitTimer == InitMonitor /\ callsLeft = MaxTimerCalls

InitAlert == InitMonitor /\ callsLeft = MaxAlertCalls

InitCounters == InitMonitor /\ callsLeft = MaxCounterCalls

\* The monitor after some stream errors and successful alerts
InitHealth ==
  /\ \E e \in PriorStreamErrors, a \in PriorAlertsSent :
       InitState([initializeMetrics(0) EXCEPT !.streamErrors = e,
                                              !.alertsSent = a])
  /\ callsLeft = MaxHealthCalls

\* Times at which a behaviour of SpecReport starts: at construction, or
\* shortly before the first report is due with no call made meanwhile
ReportStartTimes == {0, REPORT_INTERVAL - 200}

\* The monitor at time t with no report emitted yet, SOL having seen one
\* transaction of 10 and timer t1 having been started at construction time
\* (a recordTokenActivity and a startTimer call)
InitReportAt(t) ==
  /\ now = t
  /\ startTime = 0
  /\ metrics = initializeMetrics(0)
  /\ tokenMetrics =
       [initializeTokenMetrics(0) EXCEPT
          !["SOL"] = [@ EXCEPT !.transactions = 1,
                               !.averageTransactionSize = Num(10),
                               !.largestTransaction = Num(10)]]
  /\ processingTimers =
       [id \in {"t1"} |-> [start |-> 0, operation |-> TimerLabel]]
  /\ snapshot = << >>
  /\ health = << >>
  /\ lastCall = Call("constructor", "", "", Void, FALSE, Void)
  /\ dbCalls = << >>
  /\ amountsSupplied =
       [s \in ConfiguredSymbols |-> IF s = "SOL" THEN <<Num(10)>> ELSE << >>]
  /\ intervalId = IntervalRef
  /\ activeTimers = {IntervalRef}
  /\ stopped = FALSE
  /\ nextReport = REPORT_INTERVAL
  /\ reports = 0
  /\ lastReport = << >>
  /\ invocations = [h \in Invocations |-> Idle]
  /\ callStack = << >>
  /\ committed = Aggregate
  /\ tokenEvents =
       [s \in ConfiguredSymbols |->
          [account |-> 0, transaction |-> IF s = "SOL" THEN 1 ELSE 0]]
  /\ alertCalls = 0
  /\ foldedDurations = << >>
  /\ performanceMonitor = MonitorRef
  /\ constructions = 1

\* The process before initializeMonitoring() was called: the module
\* variable is null and no PerformanceMonitor, and so none of its fields and
\* no interval, exists
InitModule ==
  /\ now = 0
  /\ startTime = 0
  /\ metrics = << >>
  /\ tokenMetrics = << >>
  /\ processingTimers = << >>
  /\ snapshot = << >>
  /\ health = << >>
  /\ lastCall = Call("import", "", "", Void, FALSE, Void)
  /\ dbCalls = << >>
  /\ amountsSupplied = [s \in ConfiguredSymbols |-> << >>]
  /\ intervalId = "null"
  /\ activeTimers = {}
  /\ stopped = FALSE
  /\ nextReport = 0
  /\ reports = 0
  /\ lastReport = << >>
  /\ invocations = [h \in Invocations |-> Idle]
  /\ callStack = << >>
  /\ stream = << >>
  /\ committed = << >>
  /\ tokenEvents =
       [s \in ConfiguredSymbols |-> [account |-> 0, transaction |-> 0]]
  /\ alertCalls = 0
  /\ foldedDurations = << >>
  /\ performanceMonitor = "null"
  /\ constructions = 0

InitSingleton == InitModule /\ callsLeft = MaxSingletonCalls

InitDashboard == InitModule /\ callsLeft = MaxDashboardCalls

InitReport ==
  /\ \E t \in ReportStartTimes : InitReportAt(t)
  /\ stream = << >>
  /\ callsLeft = MaxReportCalls

\* The monitor shortly before the first report is due
InitStop ==
  /\ InitReportAt(REPORT_INTERVAL - 200)
  /\ stream = << >>
  /\ callsLeft = MaxStopCalls

\* The same, for the behaviours of SpecInterval
InitInterval ==
  /\ InitReportAt(REPORT_INTERVAL - 200)
  /\ stream = << >>
  /\ callsLeft = MaxIntervalCalls

\* The updates delivered in a behaviour of SpecHandler: an account update of
\* a configured token that raises an alert, a transaction, and a block with
\* no blockHeight
AccountMessage == Message("account", "SOL", TRUE, FALSE, FALSE, FALSE)

TransactionMessage ==
  Message("transaction", "none", FALSE, FALSE, FALSE, FALSE)

BlockMessage == Message("block", "none", FALSE, FALSE, FALSE, FALSE)

\* Two different ones are on the stream
HandlerStreams ==
  { <<AccountMessage, TransactionMessage>>,
    <<TransactionMessage, BlockMessage>>,
    <<BlockMessage, AccountMessage>> }

\* The updates delivered in a behaviour of SpecWrites: with the updates
\* above, an account update of SOL whose lamports is not the text of an
\* integer, an account update whose key new PublicKey rejects, a slot update
\* and a block that carries its blockHeight
WriteMessages ==
  { AccountMessage, TransactionMessage, BlockMessage,
    Message("account", "SOL", FALSE, FALSE, FALSE, TRUE),
    Message("account", "none", FALSE, FALSE, TRUE, FALSE),
    Message("slot", "none", FALSE, FALSE, FALSE, FALSE),
    Message("block", "none", FALSE, TRUE, FALSE, FALSE) }

\* Two of them are on the stream, of one kind or of two
WriteStreams == { << m1, m2 >> : m1 \in WriteMessages, m2 \in WriteMessages }

\* The monitor after new PerformanceMonitor(), with two updates to deliver:
\* no timer is registered and nothing is counted
InitWrites ==
  /\ now = 0
  /\ startTime = 0
  /\ metrics = initializeMetrics(0)
  /\ tokenMetrics = initializeTokenMetrics(0)
  /\ processingTimers = << >>
  /\ snapshot = << >>
  /\ health = << >>
  /\ lastCall = Call("constructor", "", "", Void, FALSE, Void)
  /\ dbCalls = << >>
  /\ amountsSupplied = [s \in ConfiguredSymbols |-> << >>]
  /\ intervalId = IntervalRef
  /\ activeTimers = {IntervalRef}
  /\ stopped = FALSE
  /\ nextReport = REPORT_INTERVAL
  /\ reports = 0
  /\ lastReport = << >>
  /\ invocations = [h \in Invocations |-> Idle]
  /\ callStack = << >>
  /\ stream \in WriteStreams
  /\ committed = Aggregate
  /\ tokenEvents =
       [s \in ConfiguredSymbols |-> [account |-> 0, transaction |-> 0]]
  /\ alertCalls = 0
  /\ foldedDurations = << >>
  /\ performanceMonitor = MonitorRef
  /\ constructions = 1
  /\ callsLeft = MaxWriteCalls

\* The monitor when the first report falls due, no call having been made
InitHandler ==
  /\ InitReportAt(REPORT_INTERVAL)
  /\ stream \in HandlerStreams
  /\ callsLeft = MaxHandlerCalls

\* ------------------------------------------------------ running averages
\* PerformanceMonitor.updateAverageProcessingTime
updateAverageProcessingTime(m, duration) ==
  LET total ==
        NumAdd(NumMul(m.averageProcessingTime,
                      Num(m.totalMessagesProcessed - 1)),
               duration)
  IN [m EXCEPT !.averageProcessingTime =
                   NumDiv(total, Num(m.totalMessagesProcessed))]

\* updateMessagesPerSecond dividing by the uptime in milliseconds
updateMessagesPerSecondPerMillisecond(m, t, t0) ==
  [m EXCEPT !.messagesPerSecond =
                NumDiv(Num(m.totalMessagesProcessed), Num(t - t0))]

\* PerformanceMonitor.updateMessagesPerSecond
updateMessagesPerSecond(m, t, t0) ==
  LET uptimeSeconds == NumDiv(Num(t - t0), Num(1000))
  IN [m EXCEPT !.messagesPerSecond =
                   NumDiv(Num(m.totalMessagesProcessed), uptimeSeconds)]

\* PerformanceMonitor.updateAverageDatabaseLatency
updateAverageDatabaseLatency(m, latency) ==
  LET total ==
        NumAdd(NumMul(m.databaseLatency,
                      Num(m.databaseOperationsPerSecond - 1)),
               latency)
  IN [m EXCEPT !.databaseLatency =
                   NumDiv(total, Num(m.databaseOperationsPerSecond))]

\* recordDatabaseOperation folding the latency of a failure into the average
recordDatabaseOperationFoldsFailures(m, latency, success) ==
  LET m1 == updateAverageDatabaseLatency(m, latency)
  IN IF success
     THEN [m1 EXCEPT !.databaseOperationsPerSecond = @ + 1]
     ELSE [m1 EXCEPT !.failedDatabaseOperations = @ + 1]

\* PerformanceMonitor.recordDatabaseOperation: the metrics it leaves
recordDatabaseOperation(m, latency, success) ==
  IF success
  THEN LET m1 == updateAverageDatabaseLatency(m, latency)
       IN [m1 EXCEPT !.databaseOperationsPerSecond = @ + 1]
  ELSE [m EXCEPT !.failedDatabaseOperations = @ + 1]

\* PerformanceMonitor.recordMessageProcessed: the metrics it leaves
recordMessageProcessed(m, t, t0) ==
  LET m1 == [m EXCEPT !.totalMessagesProcessed = @ + 1,
                      !.lastMessageTime = t]
  IN updateMessagesPerSecond(m1, t, t0)

\* updateSystemMetrics also stamping lastMessageTime
updateSystemMetricsStampsMessage(m, t, t0, env) ==
  [m EXCEPT !.memoryUsage = env.heapUsed,
            !.connectionUptime = t - t0,
            !.cpuUsage = NumDiv(Num(env.user + env.system), Num(1000000)),
            !.lastMessageTime = t]

\* PerformanceMonitor.updateSystemMetrics: the metrics it leaves
updateSystemMetrics(m, t, t0, env) ==
  [m EXCEPT !.memoryUsage = env.heapUsed,
            !.connectionUptime = t - t0,
            !.cpuUsage = NumDiv(Num(env.user + env.system), Num(1000000))]

\* ---------------------------------------------------------- token activity
\* An optional argument is a sequence: << >> when omitted, <<v>> when given
AmountArgs == {<< >>} \cup {<<Num(a)>> : a \in Amounts}

\* updateLargestTransaction without its comparison: the last amount wins
updateLargestTransactionLastWins(largest, amount) == amount

\* PerformanceMonitor.recordTokenActivity, lines 108-110: the largest
\* transaction after an amount
updateLargestTransaction(largest, amount) ==
  IF NumGt(amount, largest) THEN amount ELSE largest

\* recordTokenActivity counting every event as an account update
recordTokenEntryCountsAllAsAccount(e, type, amount, t) ==
  [e EXCEPT !.lastActivity = t, !.accountUpdates = @ + 1]

\* PerformanceMonitor.recordTokenActivity, lines 95-112: the entry it leaves
\* for a configured symbol
recordTokenEntry(e, type, amount, t) ==
  LET e1 == [e EXCEPT !.lastActivity = t] IN
  IF type = "account"
  THEN [e1 EXCEPT !.accountUpdates = @ + 1]
  ELSE IF type = "transaction"
  THEN LET e2 == [e1 EXCEPT !.transactions = @ + 1] IN
       IF amount # << >> /\ Truthy(amount[1])
       THEN LET totalAmount ==
                  NumAdd(NumMul(e2.averageTransactionSize,
                                Num(e2.transactions - 1)),
                         amount[1])
                e3 == [e2 EXCEPT !.averageTransactionSize =
                                     NumDiv(totalAmount, Num(e2.transactions))]
            IN [e3 EXCEPT !.largestTransaction =
                              updateLargestTransaction(@, amount[1])]
       ELSE e2
  ELSE e1

\* recordTokenActivity creating the entry of an unknown symbol on first use
\* instead of returning
recordTokenActivityLazy(tm, symbol, type, amount, t) ==
  LET fresh == [ symbol |-> symbol, accountUpdates |-> 0, transactions |-> 0,
                 averageTransactionSize |-> Num(0),
                 largestTransaction |-> Num(0), lastActivity |-> t ]
  IN [ s \in DOMAIN tm \cup {symbol} |->
         IF s = symbol
         THEN recordTokenEntry(IF s \in DOMAIN tm THEN tm[s] ELSE fresh,
                               type, amount, t)
         ELSE tm[s] ]

\* PerformanceMonitor.recordTokenActivity: the tokenMetrics object it leaves
recordTokenActivity(tm, symbol, type, amount, t) ==
  IF symbol \notin DOMAIN tm
  THEN tm
  ELSE [tm EXCEPT ![symbol] = recordTokenEntry(tm[symbol], type, amount, t)]

\* ------------------------------------------------------------------ timers
\* startTimer keeping the entry an id already has: the first start wins
startTimerKeepsFirst(timers, operationId, operation, t) ==
  [ id \in DOMAIN timers \cup {operationId} |->
      IF id \in DOMAIN timers
      THEN timers[id]
      ELSE [start |-> t, operation |-> operation] ]

\* PerformanceMonitor.startTimer: the registry it leaves
startTimer(timers, operationId, operation, t) ==
  [ id \in DOMAIN timers \cup {operationId} |->
      IF id = operationId
      THEN [start |-> t, operation |-> operation]
      ELSE timers[id] ]

\* Map.delete
MapDelete(timers, operationId) ==
  [ id \in DOMAIN timers \ {operationId} |-> timers[id] ]

\* endTimer without Map.delete: the entry stays registered
endTimerKeepsEntry(timers, m, operationId, t) ==
  IF operationId \notin DOMAIN timers
  THEN [ret |-> Num(0), timers |-> timers, metrics |-> m]
  ELSE LET duration == Num(t - timers[operationId].start)
       IN [ ret |-> duration,
            timers |-> timers,
            metrics |-> updateAverageProcessingTime(m, duration) ]

\* endTimer without its early return: an unknown id folds a zero duration
endTimerFoldsUnknown(timers, m, operationId, t) ==
  LET duration ==
        IF operationId \in DOMAIN timers
        THEN Num(t - timers[operationId].start)
        ELSE Num(0)
  IN [ ret |-> duration,
       timers |-> MapDelete(timers, operationId),
       metrics |-> updateAverageProcessingTime(m, duration) ]

\* PerformanceMonitor.endTimer: the duration returned, the registry and the
\* metrics it leaves
endTimer(timers, m, operationId, t) ==
  IF operationId \notin DOMAIN timers
  THEN [ret |-> Num(0), timers |-> timers, metrics |-> m]
  ELSE LET duration == Num(t - timers[operationId].start)
       IN [ ret |-> duration,
            timers |-> MapDelete(timers, operationId),
            metrics |-> updateAverageProcessingTime(m, duration) ]

\* ------------------------------------------------------------------ health
Issue(text, value) == [text |-> text, value |-> value]

Verdict(level, issues) == [level |-> level, issues |-> issues]

\* The local errorRate of checkDatabaseHealth: failed / (succeeded + failed),
\* divided whatever the denominator is
databaseErrorRate(m) ==
  NumDiv(Num(m.failedDatabaseOperations),
         Num(m.databaseOperationsPerSecond + m.failedDatabaseOperations))

\* The error rate a checkDatabaseHealth call computed: Void when it returned
\* on the latency test, before the division
errorRateComputed(m) ==
  IF NumGt(m.databaseLatency, Num(MAX_DATABASE_LATENCY))
  THEN Void
  ELSE databaseErrorRate(m)

\* checkDatabaseHealth testing the error rate with !(rate <= max): a rate
\* of 0 / 0 counts as exceeding
checkDatabaseHealthNaNExceeds(m) ==
  IF NumGt(m.databaseLatency, Num(MAX_DATABASE_LATENCY))
  THEN Verdict("warning",
               <<Issue("High database latency", m.databaseLatency)>>)
  ELSE LET errorRate == databaseErrorRate(m)
       IN IF IsNaN(errorRate) \/ NumGt(errorRate, MAX_ERROR_RATE)
          THEN Verdict("critical",
                       <<Issue("High database error rate",
                               ToFixed2(NumMul(errorRate, Num(100))))>>)
          ELSE Verdict("healthy", << >>)

\* PerformanceMonitor.checkDatabaseHealth: the verdict and the issues pushed
checkDatabaseHealth(m) ==
  IF NumGt(m.databaseLatency, Num(MAX_DATABASE_LATENCY))
  THEN Verdict("warning",
               <<Issue("High database latency", m.databaseLatency)>>)
  ELSE LET errorRate == databaseErrorRate(m)
       IN IF NumGt(errorRate, MAX_ERROR_RATE)
          THEN Verdict("critical",
                       <<Issue("High database error rate",
                               ToFixed2(NumMul(errorRate, Num(100))))>>)
          ELSE Verdict("healthy", << >>)

\* checkStreamHealth testing the error count before the silence
checkStreamHealthErrorsFirst(m, t) ==
  LET timeSinceLastMessage == t - m.lastMessageTime IN
  IF m.streamErrors > 5
  THEN Verdict("warning",
               <<Issue("Multiple stream errors", Num(m.streamErrors))>>)
  ELSE IF timeSinceLastMessage > MAX_STREAM_SILENCE
  THEN Verdict("critical",
               <<Issue("Stream silent for",
                       MathRound(NumDiv(Num(timeSinceLastMessage),
                                        Num(1000))))>>)
  ELSE Verdict("healthy", << >>)

\* PerformanceMonitor.checkStreamHealth
checkStreamHealth(m, t) ==
  LET timeSinceLastMessage == t - m.lastMessageTime IN
  IF timeSinceLastMessage > MAX_STREAM_SILENCE
  THEN Verdict("critical",
               <<Issue("Stream silent for",
                       MathRound(NumDiv(Num(timeSinceLastMessage),
                                        Num(1000))))>>)
  ELSE IF m.streamErrors > 5
  THEN Verdict("warning",
               <<Issue("Multiple stream errors", Num(m.streamErrors))>>)
  ELSE Verdict("healthy", << >>)

\* checkMemoryHealth with a critical tier above the threshold
checkMemoryHealthCritical(m) ==
  IF m.memoryUsage > MAX_MEMORY_USAGE
  THEN Verdict("critical", <<Issue("High memory usage", Num(0))>>)
  ELSE Verdict("healthy", << >>)

\* PerformanceMonitor.checkMemoryHealth
checkMemoryHealth(m) ==
  LET memoryUsed == m.memoryUsage IN
  IF memoryUsed > MAX_MEMORY_USAGE
  THEN Verdict("warning",
               <<Issue("High memory usage",
                       MathRound(NumDiv(NumDiv(Num(memoryUsed), Num(1024)),
                                        Num(1024))))>>)
  ELSE Verdict("healthy", << >>)

\* checkAlertHealth with >= in place of > in its two comparisons
checkAlertHealthInclusive(m) ==
  LET totalAlerts == m.alertsSent + m.alertsFailedToSend IN
  IF totalAlerts = 0
  THEN Verdict("healthy", << >>)
  ELSE LET failureRate ==
             NumDiv(Num(m.alertsFailedToSend), Num(totalAlerts))
       IN IF ~NumGt([n |-> 1, d |-> 2], failureRate)
          THEN Verdict("critical",
                       <<Issue("High alert failure rate",
                               ToFixed2(NumMul(failureRate, Num(100))))>>)
          ELSE IF ~NumGt([n |-> 1, d |-> 10], failureRate)
          THEN Verdict("warning",
                       <<Issue("Some alert failures",
                               ToFixed2(NumMul(failureRate, Num(100))))>>)
          ELSE Verdict("healthy", << >>)

\* PerformanceMonitor.checkAlertHealth
checkAlertHealth(m) ==
  LET totalAlerts == m.alertsSent + m.alertsFailedToSend IN
  IF totalAlerts = 0
  THEN Verdict("healthy", << >>)
  ELSE LET failureRate ==
             NumDiv(Num(m.alertsFailedToSend), Num(totalAlerts))
       IN IF NumGt(failureRate, [n |-> 1, d |-> 2])
          THEN Verdict("critical",
                       <<Issue("High alert failure rate",
                               ToFixed2(NumMul(failureRate, Num(100))))>>)
          ELSE IF NumGt(failureRate, [n |-> 1, d |-> 10])
          THEN Verdict("warning",
                       <<Issue("Some alert failures",
                               ToFixed2(NumMul(failureRate, Num(100))))>>)
          ELSE Verdict("healthy", << >>)

\* getHealthStatus leaving the alert verdict out of healthLevels
getHealthStatusIgnoresAlerts(m, t) ==
  LET dbHealth == checkDatabaseHealth(m)
      streamHealth == checkStreamHealth(m, t)
      memoryHealth == checkMemoryHealth(m)
      alertHealth == checkAlertHealth(m)
      healthLevels ==
        {dbHealth.level, streamHealth.level, memoryHealth.level}
  IN [ overall |->
         IF "critical" \in healthLevels THEN "critical"
         ELSE IF "warning" \in healthLevels THEN "warning"
         ELSE "healthy",
       services |->
         [ database |-> dbHealth.level,
           grpcStream |-> streamHealth.level,
           memory |-> memoryHealth.level,
           alertSystem |-> alertHealth.level ],
       issues |->
         dbHealth.issues \o streamHealth.issues \o memoryHealth.issues
           \o alertHealth.issues,
       uptime |-> m.connectionUptime ]

\* getHealthStatus running the stream check before the database check
getHealthStatusStreamFirst(m, t) ==
  LET dbHealth == checkDatabaseHealth(m)
      streamHealth == checkStreamHealth(m, t)
      memoryHealth == checkMemoryHealth(m)
      alertHealth == checkAlertHealth(m)
      healthLevels ==
        {dbHealth.level, streamHealth.level, memoryHealth.level,
         alertHealth.level}
  IN [ overall |->
         IF "critical" \in healthLevels THEN "critical"
         ELSE IF "warning" \in healthLevels THEN "warning"
         ELSE "healthy",
       services |->
         [ database |-> dbHealth.level,
           grpcStream |-> streamHealth.level,
           memory |-> memoryHealth.level,
           alertSystem |-> alertHealth.level ],
       issues |->
         streamHealth.issues \o dbHealth.issues \o memoryHealth.issues
           \o alertHealth.issues,
       uptime |-> m.connectionUptime ]

\* PerformanceMonitor.getHealthStatus: the status returned for metrics m that
\* updateSystemMetrics has refreshed
getHealthStatus(m, t) ==
  LET dbHealth == checkDatabaseHealth(m)
      streamHealth == checkStreamHealth(m, t)
      memoryHealth == checkMemoryHealth(m)
      alertHealth == checkAlertHealth(m)
      healthLevels ==
        {dbHealth.level, streamHealth.level, memoryHealth.level,
         alertHealth.level}
  IN [ overall |->
         IF "critical" \in healthLevels THEN "critical"
         ELSE IF "warning" \in healthLevels THEN "warning"
         ELSE "healthy",
       services |->
         [ database |-> dbHealth.level,
           grpcStream |-> streamHealth.level,
           memory |-> memoryHealth.level,
           alertSystem |-> alertHealth.level ],
       issues |->
         dbHealth.issues \o streamHealth.issues \o memoryHealth.issues
           \o alertHealth.issues,
       uptime |-> m.connectionUptime ]

\* PerformanceMonitor.getMetrics: the spread copy { ...this.metrics } of the
\* refreshed metrics; its tokenMetrics field is the same reference
getMetrics(m) == m

\* What a reader sees through a snapshot: its own fields, and the entries of
\* the object its tokenMetrics field refers to
SnapshotView(snap) ==
  [ fields |-> snap,
    tokenMetrics |->
      IF snap.tokenMetrics = TokenMetricsRef THEN tokenMetrics ELSE << >> ]

\* --------------------------------------------------------------- reporting
\* PerformanceMonitor.printPerformanceReport: getMetrics() then
\* getHealthStatus(), each sampling the system first; the metrics it leaves
\* and the two values the report is printed from
printPerformanceReport(m, t, t0, env1, env2) ==
  LET m1 == updateSystemMetrics(m, t, t0, env1)
      reported == getMetrics(m1)
      m2 == updateSystemMetrics(m1, t, t0, env2)
  IN [ metrics |-> m2,
       report |-> [metrics |-> reported, health |-> getHealthStatus(m2, t)] ]

\* stop() leaving the interval armed and the field set
stopForgetsInterval(id, timers) ==
  [intervalId |-> id, timers |-> timers]

\* PerformanceMonitor.stop: the field and the armed timers it leaves
stop(id, timers) ==
  IF id # "null"
  THEN [intervalId |-> "null", timers |-> timers \ {id}]
  ELSE [intervalId |-> id, timers |-> timers]

\* The static methods of PerformanceDashboard that pull from the monitor
DashboardPulls ==
  { "getMetricsJSON", "getHealthJSON", "getFormattedMetrics",
    "exportMetricsCSV", "getTokenMetrics", "getPerformanceSummary",
    "checkPerformanceDegradation" }

\* The monitor methods a dashboard pull calls, in order
dashboardReads(pull) ==
  CASE pull = "getMetricsJSON" -> <<"getMetrics">>
    [] pull = "getHealthJSON" -> <<"getHealthStatus">>
    [] pull = "getFormattedMetrics" -> <<"getMetrics", "getHealthStatus">>
    [] pull = "exportMetricsCSV" -> <<"getMetrics">>
    [] pull = "getTokenMetrics" -> <<"getMetrics">>
    [] pull = "getPerformanceSummary" -> <<"getHealthStatus", "getMetrics">>
    [] pull = "checkPerformanceDegradation"
         -> <<"getHealthStatus", "getMetrics">>

\* The metrics a dashboard pull leaves: each read samples the system
dashboardPull(m, pull, t, t0, env1, env2) ==
  LET m1 == updateSystemMetrics(m, t, t0, env1)
  IN IF Len(dashboardReads(pull)) = 1
     THEN m1
     ELSE updateSystemMetrics(m1, t, t0, env2)

\* ------------------------------------------------------------- handleData
\* A task running whatever the call stack holds, as a preempting thread would
mayStartPreemptive(stack) == TRUE

\* The event loop starts a task (a callback, the continuation of an await)
\* only when the running one has returned: functions run to completion
mayStart(stack) == stack = << >>

\* A statement of a monitor operation; last marks the one that completes it
Statement(stmt, id, kind, num, last) ==
  [stmt |-> stmt, id |-> id, kind |-> kind, num |-> num, last |-> last]

\* The statements of startTimer(operationId, operation)
startTimerStatements(operationId, operation) ==
  << Statement("processingTimers.set", operationId, operation, Void, TRUE) >>

\* The statements of endTimer(operationId) at time t, none on an unknown id
endTimerStatements(timers, operationId, t) ==
  IF operationId \in DOMAIN timers
  THEN << Statement("processingTimers.delete", operationId, "", Void, FALSE),
          Statement("updateAverageProcessingTime", "", "",
                    Num(t - timers[operationId].start), TRUE) >>
  ELSE << >>

\* What endTimer(operationId) || 0 evaluates to at time t
durationOrZero(timers, operationId, t) ==
  IF operationId \in DOMAIN timers
  THEN Num(t - timers[operationId].start)
  ELSE Num(0)

\* The statements of recordMessageProcessed()
recordMessageProcessedStatements ==
  << Statement("totalMessagesProcessed++", "", "", Void, FALSE),
     Statement("lastMessageTime", "", "", Void, FALSE),
     Statement("updateMessagesPerSecond", "", "", Void, TRUE) >>

\* The statements of recordDatabaseOperation(latency, success)
recordDatabaseOperationStatements(latency, success) ==
  IF success
  THEN << Statement("updateAverageDatabaseLatency", "", "", latency, FALSE),
          Statement("databaseOperationsPerSecond++", "", "", Void, TRUE) >>
  ELSE << Statement("failedDatabaseOperations++", "", "", Void, TRUE) >>

\* The statements of recordTokenActivity(symbol, 'account')
recordTokenActivityStatements(tm, symbol) ==
  IF symbol \in DOMAIN tm
  THEN << Statement("lastActivity", symbol, "", Void, FALSE),
          Statement("accountUpdates++", symbol, "", Void, TRUE) >>
  ELSE << >>

\* What one statement leaves of the metrics, the token metrics and the timers
execute(st, m, tm, timers, t, t0) ==
  LET s0 == [metrics |-> m, tokenMetrics |-> tm, timers |-> timers] IN
  CASE st.stmt = "processingTimers.set" ->
         [s0 EXCEPT !.timers = startTimer(timers, st.id, st.kind, t)]
    [] st.stmt = "processingTimers.delete" ->
         [s0 EXCEPT !.timers = MapDelete(timers, st.id)]
    [] st.stmt = "updateAverageProcessingTime" ->
         [s0 EXCEPT !.metrics = updateAverageProcessingTime(m, st.num)]
    [] st.stmt = "totalMessagesProcessed++" ->
         [s0 EXCEPT !.metrics.totalMessagesProcessed = @ + 1]
    [] st.stmt = "lastMessageTime" ->
         [s0 EXCEPT !.metrics.lastMessageTime = t]
    [] st.stmt = "updateMessagesPerSecond" ->
         [s0 EXCEPT !.metrics = updateMessagesPerSecond(m, t, t0)]
    [] st.stmt = "updateAverageDatabaseLatency" ->
         [s0 EXCEPT !.metrics = updateAverageDatabaseLatency(m, st.num)]
    [] st.stmt = "databaseOperationsPerSecond++" ->
         [s0 EXCEPT !.metrics.databaseOperationsPerSecond = @ + 1]
    [] st.stmt = "failedDatabaseOperations++" ->
         [s0 EXCEPT !.metrics.failedDatabaseOperations = @ + 1]
    [] st.stmt = "streamErrors++" ->
         [s0 EXCEPT !.metrics.streamErrors = @ + 1]
    [] st.stmt = "alertsSent++" ->
         [s0 EXCEPT !.metrics.alertsSent = @ + 1]
    [] st.stmt = "lastActivity" ->
         [s0 EXCEPT !.tokenMetrics[st.id].lastActivity = t]
    [] st.stmt = "accountUpdates++" ->
         [s0 EXCEPT !.tokenMetrics[st.id].accountUpdates = @ + 1]

\* handleData's operationId: msg-${Date.now()}-${Math.random()}, the random
\* part being the invocation's own
messageOperationId(h, t) == "msg-" \o ToString(t) \o "-" \o h

\* A sub-handler's dbOperationId: db-<kind>-${Date.now()}
dbOperationId(kind, t) == "db-" \o kind \o "-" \o ToString(t)

\* The label a sub-handler starts its timer with
dbOperationLabel(kind) == "database_" \o kind \o "_insert"

\* handleData up to its first await: both timers are started; a block with
\* no blockHeight writes nothing and returns; an account whose key
\* new PublicKey rejects throws inside the try block before the write, and
\* the catch block ends the timer, records a failed operation and rethrows
handleDataStart(h, msg, timers, t) ==
  LET opId == messageOperationId(h, t)
      dbId == dbOperationId(msg.kind, t)
      started ==
        startTimer(startTimer(timers, opId, "message_processing", t),
                   dbId, dbOperationLabel(msg.kind), t)
      throws == msg.kind = "account" /\ msg.badKey
      writes == ~throws /\ ~(msg.kind = "block" /\ ~msg.height)
  IN [ invocation |->
         [ pc |-> IF throws THEN "afterThrow"
                  ELSE IF writes THEN "awaitDatabase"
                  ELSE "afterSubHandler",
           msg |-> msg,
           operationId |-> opId,
           dbOperationId |-> dbId,
           write |-> IF writes THEN "pending" ELSE "none",
           reported |-> IF throws THEN << FALSE >> ELSE << >>,
           threw |-> FALSE ],
       statements |->
         startTimerStatements(opId, "message_processing")
         \o startTimerStatements(dbId, dbOperationLabel(msg.kind))
         \o (IF throws
             THEN endTimerStatements(started, dbId, t)
                  \o recordDatabaseOperationStatements(
                        durationOrZero(started, dbId, t), FALSE)
             ELSE << >>) ]

\* A sub-handler after its database write settled: the try block on success,
\* the catch block on failure. On success of an account update of a
\* configured token shouldAlert is evaluated inside the same try block: when
\* it throws, the catch block runs after the success was recorded, finds the
\* timer ended (endTimer returns 0) and records a failed operation
subHandlerResume(inv, ok, timers, tm, t) ==
  LET dbDuration == durationOrZero(timers, inv.dbOperationId, t)
      token == inv.msg.kind = "account" /\ inv.msg.symbol # "none"
      throws == token /\ inv.msg.malformed
      ended == MapDelete(timers, inv.dbOperationId)
  IN IF ok
     THEN [ pc |-> IF throws THEN "afterThrow"
                   ELSE IF token /\ inv.msg.alert
                   THEN "awaitAlert" ELSE "afterSubHandler",
            write |-> "succeeded",
            reported |-> IF throws THEN << TRUE, FALSE >> ELSE << TRUE >>,
            statements |->
              endTimerStatements(timers, inv.dbOperationId, t)
              \o recordDatabaseOperationStatements(dbDuration, TRUE)
              \o (IF token
                  THEN recordTokenActivityStatements(tm, inv.msg.symbol)
                  ELSE << >>)
              \o (IF throws
                  THEN endTimerStatements(ended, inv.dbOperationId, t)
                       \o recordDatabaseOperationStatements(
                             durationOrZero(ended, inv.dbOperationId, t),
                             FALSE)
                  ELSE << >>) ]
     ELSE [ pc |-> "afterThrow",
            write |-> "failed",
            reported |-> << FALSE >>,
            statements |->
              endTimerStatements(timers, inv.dbOperationId, t)
              \o recordDatabaseOperationStatements(dbDuration, FALSE) ]

\* dataHandler's sendAlert after alertSender.sendAlert settled
sendAlertResume ==
  << Statement("alertsSent++", "", "", Void, TRUE) >>

\* handleData recording the message in its finally block, after a throw too
handleDataResumeCountsEvery(inv, timers, t) ==
  IF inv.pc = "afterSubHandler"
  THEN recordMessageProcessedStatements
       \o endTimerStatements(timers, inv.operationId, t)
  ELSE << Statement("streamErrors++", "", "", Void, TRUE) >>
       \o recordMessageProcessedStatements
       \o endTimerStatements(timers, inv.operationId, t)

\* handleData after its sub-handler returned or threw, to its end
handleDataResume(inv, timers, t) ==
  IF inv.pc = "afterSubHandler"
  THEN recordMessageProcessedStatements
       \o endTimerStatements(timers, inv.operationId, t)
  ELSE << Statement("streamErrors++", "", "", Void, TRUE) >>
       \o endTimerStatements(timers, inv.operationId, t)

\* ----------------------------------------------------------------- actions
\* Time passes between two calls.
Tick ==
  \E delta \in TickSteps :
    /\ mayStart(callStack)
    /\ now' = now + delta
    /\ lastCall' = Call("tick", "", "", Num(delta), FALSE, Void)
    /\ callsLeft > 0
    /\ callsLeft' = callsLeft - 1
    /\ UNCHANGED << historyVars, moduleVars, handlerVars, schedVars,
                    startTime, metrics, tokenMetrics, processingTimers,
                    snapshot, health, dbCalls, amountsSupplied >>

\* monitor.startTimer(operationId, operation)
StartTimer ==
  \E operationId \in TimerIds :
    /\ processingTimers' =
         startTimer(processingTimers, operationId, TimerLabel, now)
    /\ lastCall' = Call("startTimer", operationId, TimerLabel, Void, FALSE,
                        Void)
    /\ callsLeft > 0
    /\ callsLeft' = callsLeft - 1
    /\ UNCHANGED << historyVars, moduleVars, handlerVars, schedVars, now,
                    startTime, metrics, tokenMetrics, snapshot, health,
                    dbCalls, amountsSupplied >>

\* monitor.endTimer(operationId)
EndTimer ==
  \E operationId \in TimerIds :
    LET r == endTimer(processingTimers, metrics, operationId, now) IN
    /\ processingTimers' = r.timers
    /\ metrics' = r.metrics
    /\ lastCall' = Call("endTimer", operationId, "", Void, FALSE, r.ret)
    /\ foldedDurations' =
         IF operationId \in DOMAIN processingTimers
         THEN Append(foldedDurations, r.ret)
         ELSE foldedDurations
    /\ callsLeft > 0
    /\ callsLeft' = callsLeft - 1
    /\ UNCHANGED << tokenEvents, alertCalls, moduleVars, handlerVars,
                    schedVars, now, startTime, tokenMetrics, snapshot, health,
                    dbCalls, amountsSupplied >>

\* monitor.recordMessageProcessed()
RecordMessageProcessed ==
  /\ metrics' = recordMessageProcessed(metrics, now, startTime)
  /\ lastCall' = Call("recordMessageProcessed", "", "", Void, FALSE, Void)
  /\ callsLeft > 0
  /\ callsLeft' = callsLeft - 1
  /\ UNCHANGED << historyVars, moduleVars, handlerVars, schedVars, now,
                  startTime, tokenMetrics, processingTimers, snapshot, health,
                  dbCalls, amountsSupplied >>

\* monitor.recordDatabaseOperation(latency, success)
RecordDatabaseOperation ==
  \E latency \in Latencies, success \in BOOLEAN :
    /\ metrics' = recordDatabaseOperation(metrics, Num(latency), success)
    /\ dbCalls' =
         Append(dbCalls, [latency |-> Num(latency), success |-> success])
    /\ lastCall' = Call("recordDatabaseOperation", "", "", Num(latency),
                        success, Void)
    /\ callsLeft > 0
    /\ callsLeft' = callsLeft - 1
    /\ UNCHANGED << historyVars, moduleVars, handlerVars, schedVars, now,
                    startTime, tokenMetrics, processingTimers, snapshot,
                    health, amountsSupplied >>

\* monitor.recordTokenActivity(symbol, type, amount?)
RecordTokenActivity ==
  \E symbol \in Symbols, type \in {"account", "transaction"},
     amount \in AmountArgs :
    /\ performanceMonitor # "null"
    /\ tokenMetrics' = recordTokenActivity(tokenMetrics, symbol, type, amount,
                                           now)
    /\ amountsSupplied' =
         IF symbol \in ConfiguredSymbols /\ type = "transaction"
            /\ amount # << >>
         THEN [amountsSupplied EXCEPT ![symbol] = Append(@, amount[1])]
         ELSE amountsSupplied
    /\ lastCall' = Call("recordTokenActivity", symbol, type,
                        IF amount = << >> THEN Void ELSE amount[1], FALSE,
                        Void)
    /\ tokenEvents' =
         IF symbol \in ConfiguredSymbols
         THEN [tokenEvents EXCEPT ![symbol][type] = @ + 1]
         ELSE tokenEvents
    /\ callsLeft > 0
    /\ callsLeft' = callsLeft - 1
    /\ UNCHANGED << alertCalls, foldedDurations, moduleVars, handlerVars,
                    schedVars, now, startTime, metrics, processingTimers,
                    snapshot, health, dbCalls >>

\* monitor.recordStreamError()
RecordStreamError ==
  /\ metrics' = [metrics EXCEPT !.streamErrors = @ + 1]
  /\ lastCall' = Call("recordStreamError", "", "", Void, FALSE, Void)
  /\ callsLeft > 0
  /\ callsLeft' = callsLeft - 1
  /\ UNCHANGED << historyVars, moduleVars, handlerVars, schedVars, now,
                  startTime, tokenMetrics, processingTimers, snapshot, health,
                  dbCalls, amountsSupplied >>

\* monitor.recordReconnection()
RecordReconnection ==
  /\ metrics' = [metrics EXCEPT !.reconnectionCount = @ + 1]
  /\ lastCall' = Call("recordReconnection", "", "", Void, FALSE, Void)
  /\ callsLeft > 0
  /\ callsLeft' = callsLeft - 1
  /\ UNCHANGED << historyVars, moduleVars, handlerVars, schedVars, now,
                  startTime, tokenMetrics, processingTimers, snapshot, health,
                  dbCalls, amountsSupplied >>

\* recordAlertSent counting a failed alert as sent as well
recordAlertSentCountsFailureTwice(m, success) ==
  IF success
  THEN [m EXCEPT !.alertsSent = @ + 1]
  ELSE [m EXCEPT !.alertsFailedToSend = @ + 1, !.alertsSent = @ + 1]

\* PerformanceMonitor.recordAlertSent: the metrics it leaves
recordAlertSent(m, success) ==
  IF success
  THEN [m EXCEPT !.alertsSent = @ + 1]
  ELSE [m EXCEPT !.alertsFailedToSend = @ + 1]

\* monitor.recordAlertSent(success)
RecordAlertSent ==
  \E success \in BOOLEAN :
    /\ metrics' = recordAlertSent(metrics, success)
    /\ lastCall' = Call("recordAlertSent", "", "", Void, success, Void)
    /\ alertCalls' = alertCalls + 1
    /\ callsLeft > 0
    /\ callsLeft' = callsLeft - 1
    /\ UNCHANGED << tokenEvents, foldedDurations, moduleVars, handlerVars,
                    schedVars, now, startTime, tokenMetrics, processingTimers,
                    snapshot, health, dbCalls, amountsSupplied >>

\* ------------------------------------------------------------------ alerts
\* What one webhook channel does with an alert: it is not enabled, its
\* request is answered OK, or its request rejects or is answered non-OK
ChannelOutcomes == {"disabled", "ok", "failed"}

\* The channels of WebhookConfig
Channels == {"discord", "telegram", "custom"}

\* What getAlertSender() may return
AlertSenders == {"null", "alertSender#1"}

\* AlertSender.sendDiscordAlert / sendTelegramAlert / sendCustomWebhook: how
\* the promise of an enabled channel settles
sendChannelAlert(outcome) ==
  IF outcome = "failed" THEN "rejected" ELSE "fulfilled"

\* Promise.allSettled: fulfilled whatever the promises do
allSettled(promises) == "fulfilled"

\* AlertSender.sendAlert: how its promise settles; the catch block logs and
\* does not rethrow
AlertSender_sendAlert(outcomes) ==
  LET promises ==
        { sendChannelAlert(outcomes[c]) :
            c \in {ch \in Channels : outcomes[ch] # "disabled"} }
  IN IF allSettled(promises) = "fulfilled" THEN "fulfilled" ELSE "fulfilled"

\* sendAlert of dataHandler.ts: the metrics it leaves
sendAlert(m, alertSender, outcomes) ==
  IF alertSender = "null"
  THEN m
  ELSE IF AlertSender_sendAlert(outcomes) = "fulfilled"
  THEN recordAlertSent(m, TRUE)
  ELSE recordAlertSent(m, FALSE)

\* sendAlert(alertData) of dataHandler.ts; the call records whether the
\* dispatch on some enabled channel failed
SendAlert ==
  \E alertSender \in AlertSenders, outcomes \in [Channels -> ChannelOutcomes] :
    /\ metrics' = sendAlert(metrics, alertSender, outcomes)
    /\ lastCall' = Call("sendAlert", alertSender, "", Void,
                        \E c \in Channels : outcomes[c] = "failed", Void)
    /\ alertCalls' = IF alertSender = "null" THEN alertCalls ELSE alertCalls + 1
    /\ callsLeft > 0
    /\ callsLeft' = callsLeft - 1
    /\ UNCHANGED << tokenEvents, foldedDurations, moduleVars, handlerVars,
                    schedVars, now, startTime, tokenMetrics, processingTimers,
                    snapshot, health, dbCalls, amountsSupplied >>

\* monitor.getMetrics(); the reader keeps the returned snapshot in place of
\* the one it held (keep), or drops it and goes on holding the older one
GetMetrics ==
  \E env \in EnvSamples, keep \in BOOLEAN :
    /\ mayStart(callStack)
    /\ metrics' = updateSystemMetrics(metrics, now, startTime, env)
    /\ snapshot' = IF keep THEN <<getMetrics(metrics')>> ELSE snapshot
    /\ lastCall' = Call("getMetrics", "", "", Void, keep, Void)
    /\ callsLeft > 0
    /\ callsLeft' = callsLeft - 1
    /\ UNCHANGED << historyVars, moduleVars, handlerVars, schedVars, now,
                    startTime, tokenMetrics, processingTimers, health,
                    dbCalls, amountsSupplied >>

\* monitor.getHealthStatus()
GetHealthStatus ==
  \E env \in EnvSamples :
    /\ mayStart(callStack)
    /\ metrics' = updateSystemMetrics(metrics, now, startTime, env)
    /\ health' = <<getHealthStatus(metrics', now)>>
    /\ lastCall' = Call("getHealthStatus", "", "", errorRateComputed(metrics'),
                        FALSE, Void)
    /\ callsLeft > 0
    /\ callsLeft' = callsLeft - 1
    /\ UNCHANGED << historyVars, moduleVars, handlerVars, schedVars, now,
                    startTime, tokenMetrics, processingTimers, snapshot,
                    dbCalls, amountsSupplied >>

\* monitor.stop()
Stop ==
  LET r == stop(intervalId, activeTimers) IN
  /\ performanceMonitor # "null"
  /\ intervalId' = r.intervalId
  /\ activeTimers' = r.timers
  /\ stopped' = TRUE
  /\ lastCall' = Call("stop", intervalId, "", Void, FALSE, Void)
  /\ callsLeft > 0
  /\ callsLeft' = callsLeft - 1
  /\ UNCHANGED << historyVars, moduleVars, handlerVars, nextReport, reports,
                  lastReport, now, startTime, metrics, tokenMetrics,
                  processingTimers, snapshot, health, dbCalls, amountsSupplied
                  >>

\* setInterval: the callback is due when the timer is armed and its
\* interval has elapsed
intervalDue(timers, t, next) == IntervalRef \in timers /\ t >= next

\* An interval that stays due once it has fired
rearmAtOnce(t) == t

\* setInterval: when the callback runs at time t the timer is armed again
\* for one interval later
rearm(t) == t + REPORT_INTERVAL

\* The setInterval callback of startPeriodicReporting fires: the timer is
\* armed and due; it is armed again one interval from now
ReportTick ==
  \E env1 \in EnvSamples, env2 \in EnvSamples :
    LET r == printPerformanceReport(metrics, now, startTime, env1, env2) IN
    /\ mayStart(callStack)
    /\ performanceMonitor # "null"
    /\ intervalDue(activeTimers, now, nextReport)
    /\ metrics' = r.metrics
    /\ lastReport' = <<r.report>>
    /\ reports' = reports + 1
    /\ nextReport' = rearm(now)
    /\ lastCall' = Call("reportTick", "", "", Void, FALSE, Void)
    /\ callsLeft > 0
    /\ callsLeft' = callsLeft - 1
    /\ UNCHANGED << historyVars, moduleVars, handlerVars, intervalId,
                    activeTimers, stopped, now, startTime, tokenMetrics,
                    processingTimers, snapshot, health, dbCalls,
                    amountsSupplied >>

\* monitor.printPerformanceReport() called directly
PrintPerformanceReport ==
  \E env1 \in EnvSamples, env2 \in EnvSamples :
    LET r == printPerformanceReport(metrics, now, startTime, env1, env2) IN
    /\ metrics' = r.metrics
    /\ lastReport' = <<r.report>>
    /\ lastCall' = Call("printPerformanceReport", "", "", Void, FALSE, Void)
    /\ callsLeft > 0
    /\ callsLeft' = callsLeft - 1
    /\ UNCHANGED << historyVars, moduleVars, handlerVars, intervalId,
                    activeTimers, stopped, nextReport, reports, now,
                    startTime, tokenMetrics, processingTimers, snapshot,
                    health, dbCalls, amountsSupplied >>

\* A static method of PerformanceDashboard is called
DashboardPull ==
  \E pull \in DashboardPulls, env1 \in EnvSamples, env2 \in EnvSamples :
    /\ Len(dashboardReads(pull)) = 1 => env2 = env1
    /\ metrics' = dashboardPull(metrics, pull, now, startTime, env1, env2)
    /\ lastCall' = Call("dashboard", pull, "", Void, FALSE, Void)
    /\ callsLeft > 0
    /\ callsLeft' = callsLeft - 1
    /\ UNCHANGED << historyVars, moduleVars, handlerVars, schedVars, now,
                    startTime, tokenMetrics, processingTimers, snapshot,
                    health, dbCalls, amountsSupplied >>

\* ------------------------------------------------------- the module singleton
\* The n-th PerformanceMonitor constructed in the process
MonitorOf(n) == "PerformanceMonitor#" \o ToString(n)

\* The NodeJS.Timeout the n-th constructor's setInterval returns
TimeoutOf(n) == "timeout#" \o ToString(n)

\* initializeMonitoring constructing a monitor on every call
initializeMonitoringAlwaysConstructs(pm, n) ==
  [monitor |-> MonitorOf(n + 1), constructed |-> TRUE]

\* initializeMonitoring(): the instance it returns and leaves in the module
\* variable, n monitors having been constructed before, and whether it
\* constructed one
initializeMonitoring(pm, n) ==
  IF pm = "null"
  THEN [monitor |-> MonitorOf(n + 1), constructed |-> TRUE]
  ELSE [monitor |-> pm, constructed |-> FALSE]

\* getPerformanceMonitor()
getPerformanceMonitor(pm) == pm

\* initializeMonitoring() is called; a constructor run takes the start time,
\* builds the metrics and arms the reporting interval
InitializeMonitoring ==
  LET r == initializeMonitoring(performanceMonitor, constructions) IN
  /\ mayStart(callStack)
  /\ performanceMonitor' = r.monitor
  /\ lastCall' = Call("initializeMonitoring", r.monitor, "", Void,
                      r.constructed, Void)
  /\ IF r.constructed
     THEN /\ constructions' = constructions + 1
          /\ startTime' = now
          /\ metrics' = initializeMetrics(now)
          /\ tokenMetrics' = initializeTokenMetrics(now)
          /\ processingTimers' = << >>
          /\ intervalId' = TimeoutOf(constructions + 1)
          /\ activeTimers' = activeTimers \cup {TimeoutOf(constructions + 1)}
          /\ nextReport' = now + REPORT_INTERVAL
          /\ committed' = AggregateOf(initializeMetrics(now),
                                      initializeTokenMetrics(now), << >>)
     ELSE UNCHANGED << constructions, startTime, metrics, tokenMetrics,
                       processingTimers, intervalId, activeTimers,
                       nextReport, committed >>
  /\ callsLeft > 0
  /\ callsLeft' = callsLeft - 1
  /\ UNCHANGED << historyVars, now, snapshot, health, dbCalls,
                  amountsSupplied, stopped, reports, lastReport, invocations,
                  callStack, stream >>

\* getPerformanceMonitor() is called
GetPerformanceMonitor ==
  /\ mayStart(callStack)
  /\ lastCall' = Call("getPerformanceMonitor",
                      getPerformanceMonitor(performanceMonitor), "", Void,
                      FALSE, Void)
  /\ callsLeft > 0
  /\ callsLeft' = callsLeft - 1
  /\ UNCHANGED << historyVars, moduleVars, handlerVars, schedVars, now,
                  startTime, metrics, tokenMetrics, processingTimers,
                  snapshot, health, dbCalls, amountsSupplied >>

\* PerformanceDashboard.calculateActivityRate: the elapsed time is divided
\* by 1000 * 15
calculateActivityRate(tokenMetric, t) ==
  LET minutesSinceLastActivity ==
        NumDiv(Num(t - tokenMetric.lastActivity), Num(1000 * 15))
  IN IF minutesSinceLastActivity = Num(0)
     THEN Num(0)
     ELSE NumDiv(Num(tokenMetric.transactions), minutesSinceLastActivity)

\* PerformanceDashboard.getTokenMetrics(symbol): << >> for null, else the
\* object returned; tm is the object metrics.tokenMetrics refers to
getTokenMetrics(pm, tm, symbol, t) ==
  IF pm = "null" \/ symbol \notin DOMAIN tm
  THEN << >>
  ELSE << [ symbol |-> symbol,
            accountUpdates |-> tm[symbol].accountUpdates,
            transactions |-> tm[symbol].transactions,
            averageTransactionSize |-> tm[symbol].averageTransactionSize,
            largestTransaction |-> tm[symbol].largestTransaction,
            lastActivity |-> tm[symbol].lastActivity,
            activityRate |-> calculateActivityRate(tm[symbol], t) ] >>

\* PerformanceDashboard.getTokenMetrics(symbol) is called: with a monitor,
\* getMetricsJSON reads through getMetrics(); the call records whether null
\* was returned and the activityRate otherwise
GetTokenMetrics ==
  \E symbol \in Symbols, env \in EnvSamples :
    LET r == getTokenMetrics(performanceMonitor, tokenMetrics, symbol, now) IN
    /\ mayStart(callStack)
    /\ metrics' = IF getPerformanceMonitor(performanceMonitor) = "null"
                  THEN metrics
                  ELSE updateSystemMetrics(metrics, now, startTime, env)
    /\ lastCall' = Call("getTokenMetrics", symbol, "",
                        IF r = << >> THEN Void ELSE r[1].activityRate,
                        r = << >>, Void)
    /\ callsLeft > 0
    /\ callsLeft' = callsLeft - 1
    /\ UNCHANGED << historyVars, moduleVars, handlerVars, schedVars, now,
                    startTime, tokenMetrics, processingTimers, snapshot,
                    health, dbCalls, amountsSupplied >>

\* The variables no step of a handler touches
handlerFrame ==
  << schedVars, moduleVars, now, startTime, snapshot, health, dbCalls,
     amountsSupplied, callsLeft >>

\* Invocations are numbered in the order of their calls
precedes(g, h) == g = "h1" /\ h = "h2"

\* handleData(data) is called: it runs to its first await
HandleData ==
  \E h \in Invocations :
    LET msg == Head(stream)
        r == handleDataStart(h, msg, processingTimers, now)
    IN
    /\ mayStart(callStack)
    /\ stream # << >>
    /\ invocations[h].pc = "idle"
    /\ \A g \in Invocations : invocations[g].pc = "idle" => ~precedes(g, h)
    /\ stream' = Tail(stream)
    /\ invocations' = [invocations EXCEPT ![h] = r.invocation]
    /\ callStack' = callStack \o r.statements
    /\ lastCall' = Call("handleData", h, msg.kind, Void, FALSE, Void)
    /\ UNCHANGED << handlerFrame, historyVars, metrics, tokenMetrics, 
                    processingTimers, committed >>

\* The database write a sub-handler awaits settles, and the sub-handler
\* runs on to its next await or its end
DatabaseSettled ==
  \E h \in Invocations, ok \in BOOLEAN :
    LET r == subHandlerResume(invocations[h], ok, processingTimers,
                              tokenMetrics, now) IN
    /\ mayStart(callStack)
    /\ invocations[h].pc = "awaitDatabase"
    /\ invocations' = [invocations EXCEPT ![h].pc = r.pc,
                                          ![h].write = r.write,
                                          ![h].reported = r.reported]
    /\ callStack' = callStack \o r.statements
    /\ lastCall' = Call("databaseSettled", h, invocations[h].msg.kind, Void,
                        ok, Void)
    /\ UNCHANGED << handlerFrame, historyVars, metrics, tokenMetrics,
                    processingTimers, committed, stream >>

\* alertSender.sendAlert settles, and sendAlert and the sub-handler return
AlertSettled ==
  \E h \in Invocations :
    /\ mayStart(callStack)
    /\ invocations[h].pc = "awaitAlert"
    /\ invocations' = [invocations EXCEPT ![h].pc = "afterSubHandler"]
    /\ callStack' = callStack \o sendAlertResume
    /\ lastCall' = Call("alertSettled", h, "", Void, FALSE, Void)
    /\ UNCHANGED << handlerFrame, historyVars, metrics, tokenMetrics,
                    processingTimers, committed, stream >>

\* handleData continues after its sub-handler, to its end
HandleDataResume ==
  \E h \in Invocations :
    /\ mayStart(callStack)
    /\ invocations[h].pc \in {"afterSubHandler", "afterThrow"}
    /\ invocations' =
         [invocations EXCEPT ![h].pc = "done",
                             ![h].threw = invocations[h].pc = "afterThrow"]
    /\ callStack' =
         callStack \o handleDataResume(invocations[h], processingTimers, now)
    /\ lastCall' = Call("handleDataResume", h, invocations[h].pc, Void,
                        FALSE, Void)
    /\ UNCHANGED << handlerFrame, historyVars, metrics, tokenMetrics,
                    processingTimers, committed, stream >>

\* The running segment executes its next statement
Step ==
  /\ callStack # << >>
  /\ LET st == Head(callStack)
         r == execute(st, metrics, tokenMetrics, processingTimers, now,
                      startTime)
     IN /\ metrics' = r.metrics
        /\ tokenMetrics' = r.tokenMetrics
        /\ processingTimers' = r.timers
        /\ callStack' = Tail(callStack)
        /\ committed' = IF st.last
                        THEN AggregateOf(r.metrics, r.tokenMetrics, r.timers)
                        ELSE committed
        /\ lastCall' = Call("step", st.id, st.stmt, st.num, st.last, Void)
        /\ tokenEvents' =
             IF st.stmt = "accountUpdates++"
             THEN [tokenEvents EXCEPT ![st.id].account = @ + 1]
             ELSE tokenEvents
        /\ alertCalls' =
             IF st.stmt = "alertsSent++" THEN alertCalls + 1 ELSE alertCalls
        /\ foldedDurations' =
             IF st.stmt = "updateAverageProcessingTime"
             THEN Append(foldedDurations, st.num)
             ELSE foldedDurations
  /\ UNCHANGED << handlerFrame, invocations, stream >>

\* ---------------------------------------------------------- specifications
\* The module's singleton: its creation, its lookup, stop and the reporting
\* interval.
NextSingleton ==
  \/ Tick
  \/ InitializeMonitoring
  \/ GetPerformanceMonitor
  \/ Stop
  \/ ReportTick

SpecSingleton == InitSingleton /\ [][NextSingleton]_vars

\* The dashboard's per-token query, from before the monitor exists.
NextDashboard ==
  \/ Tick
  \/ InitializeMonitoring
  \/ RecordTokenActivity
  \/ GetTokenMetrics

SpecDashboard == InitDashboard /\ [][NextDashboard]_vars

\* Every operation of the monitor, in any order.
Next ==
  \/ Tick
  \/ StartTimer
  \/ EndTimer
  \/ RecordMessageProcessed
  \/ RecordDatabaseOperation
  \/ RecordTokenActivity
  \/ RecordStreamError
  \/ RecordReconnection
  \/ RecordAlertSent
  \/ GetMetrics
  \/ GetHealthStatus

Spec == Init /\ [][Next]_vars

\* Database operations and health checks only.
NextDatabase ==
  \/ RecordDatabaseOperation
  \/ GetHealthStatus

SpecDatabase == InitDatabase /\ [][NextDatabase]_vars

\* Token activity, snapshots and the clock only.
NextToken ==
  \/ Tick
  \/ RecordTokenActivity
  \/ GetMetrics

SpecToken == InitToken /\ [][NextToken]_vars

\* Timers, processed messages and the clock only.
NextTimer ==
  \/ Tick
  \/ StartTimer
  \/ EndTimer
  \/ RecordMessageProcessed

SpecTimer == InitTimer /\ [][NextTimer]_vars

\* Alerts sent by the handlers or recorded directly, and health checks.
NextAlert ==
  \/ SendAlert
  \/ RecordAlertSent
  \/ GetHealthStatus

SpecAlert == InitAlert /\ [][NextAlert]_vars

\* The plain counters, the sending of alerts and the clock.
NextCounters ==
  \/ Tick
  \/ RecordStreamError
  \/ RecordReconnection
  \/ RecordAlertSent
  \/ SendAlert

SpecCounters == InitCounters /\ [][NextCounters]_vars

\* Everything the health classifier reads, and health checks.
NextHealth ==
  \/ Tick
  \/ RecordMessageProcessed
  \/ RecordDatabaseOperation
  \/ RecordStreamError
  \/ RecordAlertSent
  \/ GetHealthStatus

SpecHealth == InitHealth /\ [][NextHealth]_vars

\* The reporting scheduler, every reader, and the recording of messages.
NextReporting ==
  \/ Tick
  \/ ReportTick
  \/ PrintPerformanceReport
  \/ DashboardPull
  \/ GetMetrics
  \/ GetHealthStatus
  \/ RecordMessageProcessed

SpecReport == InitReport /\ [][NextReporting]_vars

\* The reporting scheduler, stop(), and what must keep working after it.
NextStop ==
  \/ Tick
  \/ Stop
  \/ ReportTick
  \/ RecordMessageProcessed
  \/ GetMetrics
  \/ GetHealthStatus

SpecStop == InitStop /\ [][NextStop]_vars

\* The reporting interval, stop, the clock and the recording of messages.
NextInterval ==
  \/ Tick
  \/ Stop
  \/ ReportTick
  \/ RecordMessageProcessed

SpecInterval == InitInterval /\ [][NextInterval]_vars

\* ReportTick as the event loop schedules it: what enables it, and the one
\* variable no other action changes. A step of a behaviour of SpecInterval
\* is a ReportFires step exactly if it is a ReportTick step.
ReportFires ==
  /\ mayStart(callStack)
  /\ performanceMonitor # "null"
  /\ intervalDue(activeTimers, now, nextReport)
  /\ callsLeft > 0
  /\ reports' = reports + 1

\* The same, the event loop running the interval's callback once it is due:
\* every task of the program returns, and a due timer is run when the
\* running task has returned.
SpecIntervalFair == SpecInterval /\ WF_reports(ReportFires)

\* handleData invocations interleaved with the clock, reports and reads.
NextHandler ==
  \/ Tick
  \/ HandleData
  \/ DatabaseSettled
  \/ AlertSettled
  \/ HandleDataResume
  \/ Step
  \/ ReportTick
  \/ GetMetrics
  \/ GetHealthStatus

SpecHandler == InitHandler /\ [][NextHandler]_vars

\* handleData invocations alone: two updates of any kinds, delivered in the
\* same millisecond or apart, their writes settling in any order.
NextWrites ==
  \/ Tick
  \/ HandleData
  \/ DatabaseSettled
  \/ AlertSettled
  \/ HandleDataResume
  \/ Step

SpecWrites == InitWrites /\ [][NextWrites]_vars

\* ------------------------------------------------------------- properties
RECURSIVE SumNum(_)
SumNum(seq) ==
  IF seq = << >> THEN Num(0) ELSE NumAdd(Head(seq), SumNum(Tail(seq)))

\* The arithmetic mean of a non-empty sequence of numbers
Mean(seq) == NumDiv(SumNum(seq), Num(Len(seq)))

\* The largest number of a non-empty sequence of numbers
MaxNum(seq) ==
  CHOOSE x \in {seq[i] : i \in DOMAIN seq} :
    \A i \in DOMAIN seq : ~NumGt(seq[i], x)

\* The latencies supplied with success = true, in call order
SuccessLatencies ==
  LET ok == SelectSeq(dbCalls, LAMBDA c : c.success)
  IN [i \in 1..Len(ok) |-> ok[i].latency]

\* The number of calls recordDatabaseOperation(_, false) made
FailedCalls == Len(SelectSeq(dbCalls, LAMBDA c : ~c.success))

\* failed / (success + failed) over the calls made
FailureRate == NumDiv(Num(FailedCalls), Num(Len(dbCalls)))

\* C1: after any non-empty sequence of recordDatabaseOperation(latency, true)
\* calls, databaseLatency is the arithmetic mean of the supplied latencies
\* (whatever their order) and the success counter is the number of calls.
C1_LatencyIsMean ==
  SuccessLatencies # << >> =>
    /\ metrics.databaseLatency = Mean(SuccessLatencies)
    /\ metrics.databaseOperationsPerSecond = Len(SuccessLatencies)

\* C2: what a reader sees through a snapshot it holds, every token entry
\* included, is not changed by any later call.
C2_SnapshotNeverChanges ==
  [][(snapshot # << >> /\ snapshot' = snapshot)
       => SnapshotView(snapshot[1])' = SnapshotView(snapshot[1])]_vars

\* The database verdict the health classifier is specified to give
ClaimedDatabaseVerdict(m) ==
  LET rate == NumDiv(Num(m.failedDatabaseOperations),
                     Num(m.databaseOperationsPerSecond
                         + m.failedDatabaseOperations))
  IN IF NumGt(rate, MAX_ERROR_RATE) THEN "critical"
     ELSE IF NumGt(m.databaseLatency, Num(MAX_DATABASE_LATENCY))
     THEN "warning"
     ELSE "healthy"

\* C3: services.database is critical whenever the failure rate exceeds the
\* error-rate threshold, whatever the average latency; otherwise warning
\* when the average latency exceeds its threshold; otherwise healthy.
C3_DatabaseVerdict ==
  lastCall.op = "getHealthStatus" =>
    health[1].services.database = ClaimedDatabaseVerdict(metrics)

\* C4: when the failure rate of the recorded database operations is above
\* the error-rate threshold and every supplied latency is below the latency
\* threshold, services.database is critical and an issue names the rate.
C4_FailuresAreCritical ==
  ( /\ lastCall.op = "getHealthStatus"
    /\ dbCalls # << >>
    /\ NumGt(FailureRate, MAX_ERROR_RATE)
    /\ \A i \in DOMAIN dbCalls :
         NumGt(Num(MAX_DATABASE_LATENCY), dbCalls[i].latency) )
  => /\ health[1].services.database = "critical"
     /\ \E i \in DOMAIN health[1].issues :
          health[1].issues[i] =
            Issue("High database error rate",
                  ToFixed2(NumMul(FailureRate, Num(100))))

\* C5: for every configured symbol, averageTransactionSize is the arithmetic
\* mean of exactly the amounts supplied with its transaction events.
C5_AverageIsMeanOfAmounts ==
  \A s \in ConfiguredSymbols :
    amountsSupplied[s] # << >> =>
      tokenMetrics[s].averageTransactionSize = Mean(amountsSupplied[s])

\* C6: for every configured symbol, largestTransaction is the largest amount
\* supplied with its transaction events, and 0 while none was supplied.
C6_LargestIsMaxOfAmounts ==
  \A s \in ConfiguredSymbols :
    tokenMetrics[s].largestTransaction =
      IF amountsSupplied[s] = << >> THEN Num(0)
      ELSE MaxNum(amountsSupplied[s])

\* A symbol was given a large amount and then a smaller one.
C6_Witness ==
  /\ lastCall.op = "recordTokenActivity"
  /\ lastCall.id = "SOL"
  /\ lastCall.num = Num(10)
  /\ Len(amountsSupplied["SOL"]) = 2
  /\ tokenMetrics["SOL"].largestTransaction = Num(30)

C8_UnknownTimerIsNoOp ==
  [][(lastCall'.op = "endTimer" /\ lastCall'.id \notin DOMAIN processingTimers)
       => /\ lastCall'.ret = Num(0)
          /\ processingTimers' = processingTimers
          /\ metrics' = metrics
          /\ tokenMetrics' = tokenMetrics]_vars

\* An id that was never started was stopped (no duration was ever folded:
\* the average is still 0 with no message processed) while another id was
\* registered and time had passed since its start.
C8_Witness ==
  /\ lastCall.op = "endTimer"
  /\ lastCall.ret = Num(0)
  /\ lastCall.id \notin DOMAIN processingTimers
  /\ metrics.totalMessagesProcessed = 0
  /\ metrics.averageProcessingTime = Num(0)
  /\ \E other \in DOMAIN processingTimers :
       now > processingTimers[other].start

\* C9: recordTokenActivity with a symbol that is not configured changes no
\* token entry, creates none and changes no other metric or timer.
C9_UnknownSymbolIsNoOp ==
  [][(lastCall'.op = "recordTokenActivity"
        /\ lastCall'.id \notin ConfiguredSymbols)
       => /\ tokenMetrics' = tokenMetrics
          /\ DOMAIN tokenMetrics' = ConfiguredSymbols
          /\ metrics' = metrics
          /\ processingTimers' = processingTimers]_vars

\* A transaction with an amount was recorded for an unconfigured symbol,
\* after time had passed since a configured symbol's last activity.
C9_Witness ==
  /\ lastCall.op = "recordTokenActivity"
  /\ lastCall.id = "PYTH"
  /\ lastCall.kind = "transaction"
  /\ lastCall.num = Num(10)
  /\ tokenMetrics["SOL"].transactions = 1
  /\ now > tokenMetrics["SOL"].lastActivity

\* C10: no metric ever holds an infinite or not-a-number value.
C10_MetricsAreFinite ==
  /\ IsFinite(metrics.messagesPerSecond)
  /\ IsFinite(metrics.averageProcessingTime)
  /\ IsFinite(metrics.databaseLatency)
  /\ IsFinite(metrics.cpuUsage)
  /\ \A s \in DOMAIN tokenMetrics :
       /\ IsFinite(tokenMetrics[s].averageTransactionSize)
       /\ IsFinite(tokenMetrics[s].largestTransaction)

\* C11: when the dispatch of an alert fails, the failure is reported through
\* recordAlertSent(false): alertsFailedToSend increases by one and alertsSent
\* does not increase for that alert.
C11_FailedDispatchIsRecorded ==
  [][(lastCall'.op = "sendAlert" /\ lastCall'.id # "null" /\ lastCall'.flag)
       => /\ metrics'.alertsFailedToSend = metrics.alertsFailedToSend + 1
          /\ metrics'.alertsSent = metrics.alertsSent]_vars

\* The four subsystem verdicts of a HealthStatus
ServiceLevels(h) ==
  { h.services.database, h.services.grpcStream, h.services.memory,
    h.services.alertSystem }

\* C12: in every HealthStatus returned, overall is critical iff some
\* subsystem verdict is critical, otherwise warning iff some subsystem
\* verdict is warning, otherwise healthy.
C12_OverallIsWorstVerdict ==
  health # << >> =>
    LET h == health[1] IN
    /\ h.overall = "critical" <=> "critical" \in ServiceLevels(h)
    /\ h.overall = "warning" <=>
         ("critical" \notin ServiceLevels(h) /\ "warning" \in ServiceLevels(h))
    /\ h.overall = "healthy" <=> ServiceLevels(h) = {"healthy"}

\* Only the alert system is critical: memory warns, database and stream are
\* healthy, and overall is critical.
C12_Witness ==
  /\ lastCall.op = "getHealthStatus"
  /\ health[1].services =
       [ database |-> "healthy", grpcStream |-> "healthy",
         memory |-> "warning", alertSystem |-> "critical" ]
  /\ health[1].overall = "critical"

\* The subsystem an issue string speaks of
SubsystemOf(text) ==
  CASE text \in {"High database latency", "High database error rate"}
         -> "database"
    [] text \in {"Stream silent for", "Multiple stream errors"}
         -> "grpcStream"
    [] text = "High memory usage" -> "memory"
    [] text \in {"High alert failure rate", "Some alert failures"}
         -> "alertSystem"
    [] OTHER -> "none"

\* The subsystems of a HealthStatus that are not healthy, in the order
\* database, stream, memory, alertSystem
UnhealthySubsystems(h) ==
  SelectSeq(<<"database", "grpcStream", "memory", "alertSystem">>,
            LAMBDA sv : h.services[sv] # "healthy")

\* The issues of a HealthStatus are one per unhealthy subsystem, in order
IssuesMatchVerdicts(h) ==
  /\ Len(h.issues) = Len(UnhealthySubsystems(h))
  /\ \A i \in DOMAIN h.issues :
       SubsystemOf(h.issues[i].text) = UnhealthySubsystems(h)[i]

ClaimedAlertVerdict(sent, failed) ==
  IF sent + failed = 0 THEN "healthy"
  ELSE IF 2 * failed > sent + failed THEN "critical"
  ELSE IF 10 * failed > sent + failed THEN "warning"
  ELSE "healthy"

\* C14: services.alertSystem is healthy whenever no alert was recorded,
\* whatever the other subsystems; otherwise it is critical iff the failure
\* rate is above 0.5, warning iff it is above 0.1 and at most 0.5, and
\* healthy iff it is at most 0.1.
C14_AlertVerdict ==
  lastCall.op = "getHealthStatus" =>
    health[1].services.alertSystem =
      ClaimedAlertVerdict(metrics.alertsSent, metrics.alertsFailedToSend)

\* No alert was recorded and the alert system is healthy while the database
\* and the stream are critical.
C14_Witness ==
  /\ lastCall.op = "getHealthStatus"
  /\ metrics.alertsSent + metrics.alertsFailedToSend = 0
  /\ health[1].services.alertSystem = "healthy"
  /\ health[1].services.database = "critical"
  /\ health[1].services.grpcStream = "critical"

\* C15: services.grpcStream is critical exactly when the time since the last
\* recorded message (since creation when there was none) exceeds 30 s, with
\* an issue citing the silence in seconds; otherwise warning exactly when
\* streamErrors exceeds 5; otherwise healthy.  A recordMessageProcessed()
\* ends the silence and with it the critical verdict.
C15_StreamVerdict ==
  lastCall.op = "getHealthStatus" =>
    LET h == health[1]
        silence == now - metrics.lastMessageTime
    IN IF silence > MAX_STREAM_SILENCE
       THEN /\ h.services.grpcStream = "critical"
            /\ \E i \in DOMAIN h.issues :
                 h.issues[i] =
                   Issue("Stream silent for", Num((silence + 500) \div 1000))
       ELSE /\ h.services.grpcStream =
                 IF metrics.streamErrors > 5 THEN "warning" ELSE "healthy"
            /\ \A i \in DOMAIN h.issues :
                 h.issues[i].text # "Stream silent for"

\* A message was recorded after more than 30 s of silence and the health
\* check that follows does not find the stream critical.
C15_Witness ==
  /\ lastCall.op = "getHealthStatus"
  /\ metrics.lastMessageTime > startTime + MAX_STREAM_SILENCE
  /\ metrics.lastMessageTime = now
  /\ health[1].services.grpcStream # "critical"

\* C16 as stated: while no database operation has been recorded (no success
\* and no failure), a health check does not compute the failure rate, finds
\* services.database healthy and pushes no database issue.
C16_RateNotComputed ==
  ( /\ lastCall.op = "getHealthStatus"
    /\ metrics.databaseOperationsPerSecond = 0
    /\ metrics.failedDatabaseOperations = 0 )
  => /\ lastCall.num = Void
     /\ health[1].services.database = "healthy"
     /\ \A i \in DOMAIN health[1].issues :
          SubsystemOf(health[1].issues[i].text) # "database"

\* C16 amended: while no database operation has been recorded, a health
\* check computes the failure rate 0 / 0 = NaN, which exceeds no threshold:
\* services.database is healthy and no issue speaks of the database.
C16_NoOperationsIsHealthy ==
  ( /\ lastCall.op = "getHealthStatus"
    /\ metrics.databaseOperationsPerSecond = 0
    /\ metrics.failedDatabaseOperations = 0 )
  => /\ IsNaN(lastCall.num)
     /\ health[1].services.database = "healthy"
     /\ \A i \in DOMAIN health[1].issues :
          SubsystemOf(health[1].issues[i].text) # "database"

\* Health was checked with no database operation recorded while another
\* subsystem was critical.
C16_Witness ==
  /\ lastCall.op = "getHealthStatus"
  /\ dbCalls = << >>
  /\ IsNaN(lastCall.num)
  /\ health[1].services.database = "healthy"
  /\ health[1].overall = "critical"

\* C17: recordDatabaseOperation(latency, false) adds exactly 1 to
\* failedDatabaseOperations and changes nothing else: the latency average,
\* the count of successful operations, every other metric, the token metrics
\* and the timers are as before, whatever the latency passed.
C17_FailureOnlyCounts ==
  [][(lastCall'.op = "recordDatabaseOperation" /\ ~lastCall'.flag)
       => /\ metrics' =
               [metrics EXCEPT !.failedDatabaseOperations = @ + 1]
          /\ UNCHANGED << tokenMetrics, processingTimers, snapshot, health,
                          now, startTime >>]_vars

\* A failure with latency 600 was recorded after a successful operation.
C17_Witness ==
  /\ lastCall.op = "recordDatabaseOperation"
  /\ ~lastCall.flag
  /\ lastCall.num = Num(600)
  /\ metrics.databaseOperationsPerSecond >= 1
  /\ metrics.failedDatabaseOperations >= 1

\* C18: once stop() has been called no periodic report is emitted; stop()
\* changes no counter, average, token metric or timer entry; after it the
\* record operations and getMetrics() / getHealthStatus() do what they did
\* before; a second stop() changes nothing.
C18_StopHaltsReports ==
  [][/\ stopped => (reports' = reports /\ lastCall'.op # "reportTick")
     /\ lastCall'.op = "stop" =>
          /\ Aggregate' = Aggregate
          /\ metrics' = metrics
          /\ intervalId' = "null"
          /\ stopped => UNCHANGED << intervalId, activeTimers >>
     /\ (stopped /\ lastCall'.op = "recordMessageProcessed") =>
          metrics' = recordMessageProcessed(metrics, now, startTime)
     /\ (stopped /\ lastCall'.op = "getMetrics") =>
          \E env \in EnvSamples :
            metrics' = updateSystemMetrics(metrics, now, startTime, env)
     /\ (stopped /\ lastCall'.op = "getHealthStatus") =>
          health' = <<getHealthStatus(metrics', now)>>]_vars

\* A report was emitted, stop() was called, the next report fell due and
\* was not emitted, and the first message was recorded after that.
C18_Witness ==
  /\ stopped
  /\ reports = 1
  /\ now >= nextReport
  /\ lastCall.op = "recordMessageProcessed"
  /\ metrics.totalMessagesProcessed = 1

\* The operations of the reporting path
ReadOperations ==
  { "reportTick", "printPerformanceReport", "getMetrics", "getHealthStatus",
    "dashboard" }

\* C19: a periodic report, printPerformanceReport(), getMetrics(),
\* getHealthStatus() and every dashboard pull leave every event counter,
\* running average, token metric, lastMessageTime and timer entry as it was.
C19_ReadersOnlyRead ==
  [][lastCall'.op \in ReadOperations => Aggregate' = Aggregate]_vars

\* A periodic report was emitted while a message, a token transaction and a
\* running timer were on record.
C19_Witness ==
  /\ lastCall.op = "reportTick"
  /\ reports = 1
  /\ metrics.totalMessagesProcessed > 0
  /\ tokenMetrics["SOL"].transactions > 0
  /\ DOMAIN processingTimers # {}

\* A report has its health classified from the very metrics it prints
ReportFromOneState(report, t) ==
  report.health = getHealthStatus(report.metrics, t)

\* A report has its health classified from the metrics it prints after the
\* system was sampled once more
ReportFromOneAggregate(report, t, t0) ==
  \E env \in EnvSamples :
    report.health =
      getHealthStatus(updateSystemMetrics(report.metrics, t, t0, env), t)

\* A read finds the aggregate as the last completed operation left it, and
\* so does the snapshot it returns
ReadsBetweenOperations ==
  /\ lastCall'.op \in ReadOperations => Aggregate' = committed
  /\ (lastCall'.op = "getMetrics" /\ lastCall'.flag) =>
       AggregateOf(snapshot'[1], tokenMetrics', processingTimers') = committed

CountsMatchEvents ==
  \A s \in ConfiguredSymbols :
    /\ tokenMetrics[s].accountUpdates = tokenEvents[s].account
    /\ tokenMetrics[s].transactions = tokenEvents[s].transaction

\* What an event of one kind leaves alone: the other kind's fields of its
\* symbol, and every other symbol's entry
TokenEventFrame(tm, tm1, symbol, type) ==
  /\ \A s \in DOMAIN tm \ {symbol} : s \in DOMAIN tm1 /\ tm1[s] = tm[s]
  /\ (symbol \in DOMAIN tm /\ type = "account") =>
       /\ tm1[symbol].transactions = tm[symbol].transactions
       /\ tm1[symbol].averageTransactionSize =
            tm[symbol].averageTransactionSize
       /\ tm1[symbol].largestTransaction = tm[symbol].largestTransaction
  /\ (symbol \in DOMAIN tm /\ type = "transaction") =>
       tm1[symbol].accountUpdates = tm[symbol].accountUpdates

\* C21: for every configured symbol, accountUpdates is the number of account
\* events recorded for it and transactions the number of transaction events;
\* an account event leaves transactions, averageTransactionSize and
\* largestTransaction, a transaction event leaves accountUpdates, and neither
\* changes another token's entry.
C21_CountsPerKind ==
  /\ []CountsMatchEvents
  /\ [][lastCall'.op = "recordTokenActivity" =>
          TokenEventFrame(tokenMetrics, tokenMetrics', lastCall'.id,
                          lastCall'.kind)]_vars

\* SOL has had an account event and then a transaction of 20, and USDC an
\* account event after them.
C21_Witness ==
  /\ lastCall.op = "recordTokenActivity"
  /\ lastCall.id = "USDC"
  /\ lastCall.kind = "account"
  /\ tokenEvents["SOL"] = [account |-> 1, transaction |-> 1]
  /\ tokenMetrics["SOL"].accountUpdates = 1
  /\ tokenMetrics["SOL"].largestTransaction = Num(20)
  /\ tokenMetrics["USDC"].accountUpdates = 1

\* startTimer(id, label) at time t leaves id registered with start t and
\* the label, and every other entry as it was
StartReplaces(timers, timers1, id, label, t) ==
  /\ DOMAIN timers1 = DOMAIN timers \cup {id}
  /\ timers1[id] = [start |-> t, operation |-> label]
  /\ \A other \in DOMAIN timers \ {id} : timers1[other] = timers[other]

\* endTimer(id) at time t returns the time since the registered start and
\* removes the entry, or returns 0 and leaves the registry
EndReturnsElapsed(timers, timers1, id, ret, t) ==
  IF id \in DOMAIN timers
  THEN /\ ret = Num(t - timers[id].start)
       /\ DOMAIN timers1 = DOMAIN timers \ {id}
       /\ \A other \in DOMAIN timers1 : timers1[other] = timers[other]
  ELSE /\ ret = Num(0)
       /\ timers1 = timers

\* C22: startTimer(id, label) replaces any entry of id, the latest start
\* winning; endTimer(id) on a registered id returns the time elapsed since
\* that start and removes the entry, so that a second endTimer(id) with no
\* startTimer(id) in between returns 0; nothing else touches the registry.
C22_LatestStartWins ==
  [][/\ lastCall'.op = "startTimer" =>
          StartReplaces(processingTimers, processingTimers', lastCall'.id,
                        lastCall'.kind, now)
     /\ lastCall'.op = "endTimer" =>
          EndReturnsElapsed(processingTimers, processingTimers', lastCall'.id,
                            lastCall'.ret, now)
     /\ lastCall'.op \notin {"startTimer", "endTimer"} =>
          processingTimers' = processingTimers]_vars

\* A timer was started twice, the second time at 400, and ended at 30401: the
\* duration returned and folded is 30001, and ending it again returned 0.
C22_Witness ==
  /\ lastCall.op = "endTimer"
  /\ lastCall.ret = Num(0)
  /\ callsLeft = 0
  /\ now = 30401
  /\ foldedDurations = << Num(30001) >>
  /\ metrics.totalMessagesProcessed = 0
  /\ DOMAIN processingTimers = {}

\* After a fold the average is the mean of the durations folded so far, and
\* the count it divided by is their number
FoldKeepsMean(average, count, folded) ==
  /\ count = Len(folded)
  /\ count # 0
  /\ average = Mean(folded)

\* C23: averageProcessingTime is the arithmetic mean of the durations folded
\* into it: at every fold the new count is the number of durations folded so
\* far, every endTimer that folds being matched by one count increment, and
\* the count is never 0 at a fold.
C23_AverageIsMeanOfFolded ==
  [][foldedDurations' # foldedDurations =>
       FoldKeepsMean(metrics'.averageProcessingTime,
                     metrics'.totalMessagesProcessed, foldedDurations')]_vars

\* The one counter an operation increases, "" for any other operation
CounterOf(op, success) ==
  CASE op = "recordStreamError" -> "streamErrors"
    [] op = "recordReconnection" -> "reconnectionCount"
    [] op = "recordAlertSent" /\ success -> "alertsSent"
    [] op = "recordAlertSent" /\ ~success -> "alertsFailedToSend"
    [] OTHER -> ""

\* Metrics m1 are metrics m with the one counter increased by one
OnlyCounterIncreased(m, m1, counter) ==
  /\ m1[counter] = m[counter] + 1
  /\ \A f \in DOMAIN m \ {counter} : m1[f] = m[f]

\* C24: recordStreamError() increases streamErrors by one,
\* recordReconnection() reconnectionCount, recordAlertSent(true) alertsSent
\* and recordAlertSent(false) alertsFailedToSend; each changes nothing else,
\* and alertsSent + alertsFailedToSend is the number of recordAlertSent calls.
C24_PlainCounters ==
  /\ [](metrics.alertsSent + metrics.alertsFailedToSend = alertCalls)
  /\ [][CounterOf(lastCall'.op, lastCall'.flag) # "" =>
          /\ OnlyCounterIncreased(metrics, metrics',
                                  CounterOf(lastCall'.op, lastCall'.flag))
          /\ DOMAIN metrics' = DOMAIN metrics
          /\ tokenMetrics' = tokenMetrics
          /\ processingTimers' = processingTimers]_vars

\* A stream error, a sent alert and then a failed alert were recorded.
C24_Witness ==
  /\ lastCall.op = "recordAlertSent"
  /\ ~lastCall.flag
  /\ alertCalls = 2
  /\ metrics.alertsSent = 1
  /\ metrics.alertsFailedToSend = 1
  /\ metrics.streamErrors = 1

\* C25: in every reachable state the symbols keyed in tokenMetrics are the
\* configured tokens seeded at initialization, each entry under its own
\* symbol: no operation adds an entry, removes one or changes its symbol.
C25_ConfiguredSymbolsOnly ==
  /\ DOMAIN tokenMetrics = ConfiguredSymbols
  /\ \A s \in DOMAIN tokenMetrics : tokenMetrics[s].symbol = s

\* USDC has had two transactions and an event for the unconfigured PYTH was
\* recorded after them.
C25_Witness ==
  /\ lastCall.op = "recordTokenActivity"
  /\ lastCall.id = "PYTH"
  /\ lastCall.kind = "account"
  /\ tokenEvents["USDC"].transaction = 2
  /\ tokenMetrics["USDC"].transactions = 2

\* The fields of the metrics recordMessageProcessed() writes
MessageFields == {"totalMessagesProcessed", "lastMessageTime",
                  "messagesPerSecond"}

\* Metrics m1 are metrics m after one message processed at time t by a
\* monitor created at time t0
OneMoreMessage(m, m1, t, t0) ==
  /\ m1.totalMessagesProcessed = m.totalMessagesProcessed + 1
  /\ m1.lastMessageTime = t
  /\ m1.messagesPerSecond =
       NumDiv(Num(m1.totalMessagesProcessed),
              NumDiv(Num(t - t0), Num(1000)))
  /\ \A f \in DOMAIN m \ MessageFields : m1[f] = m[f]

\* C26: each recordMessageProcessed() increases totalMessagesProcessed by
\* one, sets lastMessageTime to the current time and messagesPerSecond to
\* the total divided by the seconds elapsed since the monitor was created,
\* and changes no other metric.
C26_LifetimeMessageRate ==
  [][lastCall'.op = "recordMessageProcessed" =>
       /\ OneMoreMessage(metrics, metrics', now, startTime)
       /\ tokenMetrics' = tokenMetrics
       /\ processingTimers' = processingTimers]_vars

\* Two messages were processed, the second 60802 ms after creation: the
\* rate is 2 / 60.802 per second.
C26_Witness ==
  /\ lastCall.op = "recordMessageProcessed"
  /\ now = 60802
  /\ metrics.totalMessagesProcessed = 2
  /\ metrics.lastMessageTime = 60802
  /\ metrics.messagesPerSecond = NumDiv(Num(2000), Num(60802))

\* Transactions per minute since the last activity, 0 when no time elapsed
RatePerMinute(transactions, elapsed) ==
  IF elapsed = 0
  THEN Num(0)
  ELSE NumDiv(Num(transactions), NumDiv(Num(elapsed), Num(60000)))

\* C27: getTokenMetrics(symbol) returns, for a configured symbol,
\* activityRate = transactions divided by the minutes elapsed since the
\* token's last activity, and 0 when no time elapsed; for an unconfigured
\* symbol or an uninitialized monitor it returns null.
C27_ActivityRatePerMinute ==
  [][lastCall'.op = "getTokenMetrics" =>
       IF performanceMonitor = "null" \/ lastCall'.id \notin ConfiguredSymbols
       THEN lastCall'.flag
       ELSE /\ ~lastCall'.flag
            /\ lastCall'.num =
                 RatePerMinute(tokenMetrics[lastCall'.id].transactions,
                               now - tokenMetrics[lastCall'.id].lastActivity)
    ]_vars

\* The memory verdict of health status h taken with heapUsed bytes in use,
\* and what it does to the overall verdict
MemoryWarnsOnly(h, heapUsed) ==
  /\ h.services.memory =
       IF heapUsed > MAX_MEMORY_USAGE THEN "warning" ELSE "healthy"
  /\ ("critical" \notin { h.services.database, h.services.grpcStream,
                          h.services.alertSystem })
       => h.overall # "critical"

\* C28: services.memory is never critical: it is warning exactly when the
\* heap in use exceeds the memory threshold and healthy otherwise, so that
\* memory pressure alone never makes the overall verdict critical.
C28_MemoryNeverCritical ==
  /\ [](health # << >> => health[1].services.memory # "critical")
  /\ [][lastCall'.op = "getHealthStatus" =>
          MemoryWarnsOnly(health'[1], metrics'.memoryUsage)]_vars

\* The heap is above the threshold and no other subsystem complains: memory
\* warns and so does the overall verdict.
C28_Witness ==
  /\ lastCall.op = "getHealthStatus"
  /\ metrics.memoryUsage > MAX_MEMORY_USAGE
  /\ health[1].services =
       [ database |-> "healthy", grpcStream |-> "healthy",
         memory |-> "warning", alertSystem |-> "healthy" ]
  /\ health[1].overall = "warning"
  /\ metrics.totalMessagesProcessed > 0

\* At most one monitor was constructed and at most one reporting interval
\* armed; the module variable is null until then and that monitor after
OneMonitor ==
  /\ constructions <= 1
  /\ performanceMonitor = IF constructions = 0 THEN "null" ELSE MonitorRef
  /\ activeTimers \subseteq {IntervalRef}
  /\ (constructions = 1 /\ ~stopped) => activeTimers = {IntervalRef}

\* What a call of the module's two functions returns and leaves: pm and n
\* are the module variable and the number of constructions before the call
SameInstance(op, returned, pm, n, pm1, n1) ==
  /\ op = "initializeMonitoring" =>
       /\ returned = MonitorRef
       /\ pm1 = MonitorRef
       /\ n1 = 1
  /\ op = "getPerformanceMonitor" =>
       /\ returned = IF n = 0 THEN "null" ELSE MonitorRef
       /\ pm1 = pm
       /\ n1 = n
  /\ op = "stop" => (pm1 = pm /\ n1 = n)

\* C29: the monitor is created at most once per process: every
\* initializeMonitoring() returns the same instance, the aggregate is
\* constructed once and exactly one reporting interval is started;
\* getPerformanceMonitor() returns null before the first
\* initializeMonitoring() and that instance afterwards, also after stop().
C29_CreatedOnce ==
  /\ []OneMonitor
  /\ [][/\ SameInstance(lastCall'.op, lastCall'.id, performanceMonitor,
                        constructions, performanceMonitor', constructions')
        /\ (lastCall'.op = "initializeMonitoring" /\ constructions = 1) =>
             UNCHANGED << metrics, tokenMetrics, processingTimers, startTime,
                          intervalId, activeTimers >>]_vars

\* The monitor was created and stopped, and initializeMonitoring() was
\* called again: it constructed nothing, returned the same instance and
\* armed no interval.
C29_Witness ==
  /\ lastCall.op = "initializeMonitoring"
  /\ ~lastCall.flag
  /\ lastCall.id = MonitorRef
  /\ stopped
  /\ constructions = 1
  /\ intervalId = "null"
  /\ activeTimers = {}

\* The reporting interval is armed and has elapsed
ReportDue == intervalDue(activeTimers, now, nextReport)

\* A report is printed from the counters as they are and from a sample of
\* the system taken at time t, its health classified at time t
FreshReport(report, m, tm, timers, t, t0) ==
  /\ AggregateOf(report.metrics, tm, timers) = AggregateOf(m, tm, timers)
  /\ report.metrics.connectionUptime = t - t0
  /\ report.health.uptime = t - t0
  /\ ReportFromOneAggregate(report, t, t0)

\* C30: from the construction of the monitor until stop() is called, every
\* elapse of the reporting interval eventually produces exactly one report,
\* built from a fresh snapshot and health classification, whatever was
\* recorded in between: a due interval is answered, while calls remain in
\* the behaviour, by a report or by stop(); a report is emitted only by a
\* due interval, counts one and leaves the interval not due.
C30_EveryIntervalReports ==
  /\ (ReportDue /\ callsLeft > 0) ~> (~ReportDue \/ callsLeft = 0)
  /\ [][/\ reports' # reports => lastCall'.op = "reportTick"
        /\ (ReportDue /\ ~ReportDue') => lastCall'.op \in {"reportTick", "stop"}
        /\ lastCall'.op = "reportTick" =>
             /\ ReportDue
             /\ ~ReportDue'
             /\ reports' = reports + 1
             /\ FreshReport(lastReport'[1], metrics, tokenMetrics,
                            processingTimers, now, startTime)]_vars

\* The second report was emitted, one interval and two milliseconds after
\* the first, no event having been recorded since construction.
C30_Witness ==
  /\ lastCall.op = "reportTick"
  /\ reports = 2
  /\ ~stopped
  /\ now = 120202
  /\ nextReport = 180202
  /\ metrics.totalMessagesProcessed = 0
  /\ lastReport[1].metrics.connectionUptime = 120202

\* The reports that fit what became of an invocation's database write: none
\* while no write was attempted or the write is pending, one success for a
\* write that succeeded, one failure for a write that failed
WriteReportedOnce(inv) ==
  CASE inv.write = "succeeded" -> inv.reported = << TRUE >>
    [] inv.write = "failed" -> inv.reported = << FALSE >>
    [] OTHER -> inv.reported = << >>

\* The number of invocations whose database write ended as outcome
WritesEnded(outcome) ==
  Cardinality({h \in Invocations : invocations[h].write = outcome})

\* C31: each database write a handler attempted is reported to the monitor
\* exactly once, as a success if it succeeded and as a failure if it failed,
\* never as both, and no failure is reported when no write was attempted or
\* the write succeeded: between two tasks the monitor has counted one
\* operation per write that succeeded and one failure per write that failed.
C31_EachWriteReportedOnce ==
  callStack = << >> =>
    /\ \A h \in Invocations : WriteReportedOnce(invocations[h])
    /\ metrics.databaseOperationsPerSecond = WritesEnded("succeeded")
    /\ metrics.failedDatabaseOperations = WritesEnded("failed")

\* The number of invocations that completed, in handleData's catch block
\* (threw) or past its try block
Completed(threw) ==
  Cardinality({h \in Invocations :
                 invocations[h].pc = "done" /\ invocations[h].threw = threw})

\* C32: each completed handleData invocation records exactly one of
\* recordMessageProcessed() and recordStreamError(), the former iff no
\* sub-handler threw and the latter iff one threw: between two tasks, under
\* any interleaving, totalMessagesProcessed counts the invocations that
\* completed without a throw, streamErrors those that completed after one,
\* and their sum is the number of completed invocations.
C32_OneRecordPerInvocation ==
  callStack = << >> =>
    /\ metrics.totalMessagesProcessed = Completed(FALSE)
    /\ metrics.streamErrors = Completed(TRUE)
    /\ metrics.totalMessagesProcessed + metrics.streamErrors =
         Cardinality({h \in Invocations : invocations[h].pc = "done"})

\* Both invocations completed: h1's write failed and it recorded the stream
\* error, h2's write succeeded and it recorded the message.
C32_Witness ==
  /\ callStack = << >>
  /\ invocations["h1"].pc = "done" /\ invocations["h1"].threw
  /\ invocations["h1"].write = "failed"
  /\ invocations["h2"].pc = "done" /\ ~invocations["h2"].threw
  /\ invocations["h2"].write = "succeeded"
  /\ metrics.totalMessagesProcessed = 1
  /\ metrics.streamErrors = 1

\* No handleData invocation is in flight: none is between its call and its
\* return, and no task is running
NoneInFlight ==
  /\ callStack = << >>
  /\ \A h \in Invocations : invocations[h].pc \in {"idle", "done"}

\* C33: every timer handleData or a sub-handler started is stopped before
\* the invocation completes, on every path (success, thrown error, update
\* without a database write): whenever no invocation is in flight, the timer
\* registry is empty.
C33_NoTimerOutlivesItsInvocation ==
  NoneInFlight => DOMAIN processingTimers = {}

\* startTimer registers an identifier no running timer holds: no entry is
\* overwritten
StartsFreshTimer ==
  (lastCall'.op = "step" /\ lastCall'.kind = "processingTimers.set") =>
    lastCall'.id \notin DOMAIN processingTimers

\* The endTimer call of a sub-handler after its write settled, and the one
\* at the end of handleData, find the entry their invocation started
EndsOwnTimer ==
  /\ lastCall'.op = "databaseSettled" =>
       invocations[lastCall'.id].dbOperationId \in DOMAIN processingTimers
  /\ lastCall'.op = "handleDataResume" =>
       invocations[lastCall'.id].operationId \in DOMAIN processingTimers

\* C34: for any interleaving of handleData invocations in flight together,
\* timer identifiers are unique per operation: no startTimer overwrites the
\* entry of another invocation, and every endTimer call finds and consumes
\* the entry its own invocation started.
C34_TimerIdsUniquePerOperation ==
  [][StartsFreshTimer /\ EndsOwnTimer]_vars

====
